---- MODULE Spec2Model ----
(***************************************************************************)
(* Maildir-backed GTD mailbox service (MaildirService) over the            *)
(* CloudStorageManager and its providers.                                  *)
(*                                                                         *)
(* A path is a record [dir, name]: dir is the sequence of directory        *)
(* segments and name the file name.  String concatenation with '/' in the  *)
(* source is concatenation of the segment sequences here.  A file name is  *)
(* a record [ts, pid, flags, ext] for `${ts}.${pid}.swoft.local_2,${flags}`*)
(* followed by the extension.                                              *)
(*                                                                         *)
(* getInbox, getFolder and sendMessage take one step per `await` that      *)
(* reaches storage, so that other actors (another call, the cloud-sync     *)
(* client, a team member) may change the storage between two steps.        *)
(* readMessage and moveToFolder only read; each is one step.               *)
(***************************************************************************)
EXTENDS Integers, Sequences, FiniteSets, TLC

\* ------------------------------------------------------------------ bounds
MaxFiles == 2          \* files the storage holds at once
MaxFlagLen == 3        \* longest flag string with letters outside S, R, F, D, T
MaxClock == 2          \* last second the clock reaches

\* ------------------------------------------------------- program constants
maxSize == 5242880     \* 5 * 1024 * 1024, getInbox size guard
DefaultInboxLimit == 10
DefaultFolderLimit == 50

\* --------------------------------------------------------------- universe
Callers == {"c1", "c2"}
MainCallers == {"c1"}

Kevin == "kevin@swoft.ai"
KevinUpper == "Kevin@swoft.ai"
Team == "team@swoft.ai"
Agent == "kevin+claude@swoft.ai"
Stranger == "x@swoft.ai"
Readme == "README.md"

\* addresses a caller may pass
Addrs == {Kevin, KevinUpper, Team, Agent, Readme}

OrgParent == <<"Mailboxes", "Organization">>
PeopleParent == <<"Mailboxes", "People">>

\* Directory entries below the two parents: [name, isDir].  People/ also
\* holds a plain file, which is no mailbox.
ParentEntries(parent) ==
  IF parent = OrgParent THEN << [name |-> Team, isDir |-> TRUE] >>
  ELSE IF parent = PeopleParent
    THEN << [name |-> Kevin, isDir |-> TRUE],
            [name |-> Agent, isDir |-> TRUE],
            [name |-> Readme, isDir |-> FALSE] >>
    ELSE << >>

\* the seven folders of readMessage, in its order
folders == << "new", "cur", ".Next-Actions", ".Waiting-For", ".Projects",
              ".Someday-Maybe", ".Reference" >>
\* sourceFolders with the reference folder searched as well
sourceFolders_WithReference == << "new", "cur", ".Reference" >>

sourceFolders == << "new", "cur" >>
GTDFolders == { "new", "cur", "Next-Actions", "Waiting-For", "Projects",
                "Someday-Maybe", "Reference" }

Range(s) == { s[i] : i \in 1..Len(s) }

\* ------------------------------------------------------------------ state
VARIABLES
  files,           \* storage: path -> content, for the files that exist
  clock,           \* Date.now() in seconds
  activeProvider,  \* CloudStorageManager.activeProvider
  available,       \* provider name -> isAvailable()
  calls,           \* caller -> the service call it has in flight
  missing,         \* the mailbox parents the workspace does not hold
  config           \* CloudStorageManager.config

vars == << files, clock, activeProvider, available, calls, missing, config >>

\* Mailbox directories that have been provisioned with their folders.  The
\* agent mailbox is a bare directory: its folders do not exist yet.
ProvisionedMailboxes == { OrgParent \o <<Team>>, PeopleParent \o <<Kevin>> }
ProvisionedDirs ==
  {OrgParent, PeopleParent, PeopleParent \o <<Agent>>}
    \cup ProvisionedMailboxes
    \cup { m \o <<f>> : m \in ProvisionedMailboxes, f \in Range(folders) }
\* the directories of the workspace: nothing exists below a missing parent
ExistingDirs ==
  { d \in ProvisionedDirs : SubSeq(d, 1, 2) \notin missing }

\* ------------------------------------------------------------- file names
Undef == "undefined"
HostPid == "123"

ExtName1 == [ts |-> 0, pid |-> "77", flags |-> << >>,    ext |-> ".eml"]
ExtName2 == [ts |-> 0, pid |-> "77", flags |-> << "S" >>, ext |-> ".eml"]
ExtNames == { ExtName1, ExtName2 }

\* generateMaildirFilename(flags = ''), index.ts 124-132
generateMaildirFilename(now, pid, flags) ==
  [ts |-> now, pid |-> pid, flags |-> flags, ext |-> ".eml"]

endsWithEml(n) == n.ext = ".eml"

\* The text of a file name: the sequence of its characters.
Digits == << "0", "1", "2", "3", "4", "5", "6", "7", "8", "9" >>
Digit(n) == Digits[n + 1]
PidText(pid) == IF pid = "123" THEN << "1", "2", "3" >> ELSE << "7", "7" >>
\* `const hostname = 'swoft.local'`
hostname == << "s", "w", "o", "f", "t", ".", "l", "o", "c", "a", "l" >>
\* `${timestamp}.${pid}.${hostname}`
uniqueId(now, pid) == << Digit(now) >> \o << "." >> \o PidText(pid) \o << "." >> \o hostname
ExtText(ext) == IF ext = ".eml" THEN << ".", "e", "m", "l" >> ELSE << ".", "t", "x", "t" >>
\* `${uniqueId}_2,${flags}.eml`
FilenameText(name) ==
  uniqueId(name.ts, name.pid) \o << "_", "2", "," >> \o name.flags \o ExtText(name.ext)

\* Processes that run the service: process.pid is unique on one host only.
ServerProc == [host |-> "hostA", pid |-> HostPid]
Procs == { ServerProc, [host |-> "hostB", pid |-> HostPid], [host |-> "hostA", pid |-> "77"] }

\* order of a directory listing: by name (timestamp first)
NameRank(n) ==
  n.ts * 4 + (IF n.flags = << >> THEN 0 ELSE 1) + (IF n.ext = ".eml" THEN 0 ELSE 2)

\* -------------------------------------------------------------- contents
\* A file's content: its size in bytes, whether mailparser and the address
\* extraction decode it without throwing, and the headers that matter.
NoGtd == [project |-> Undef, context |-> Undef, priority |-> Undef,
          status |-> Undef, tags |-> << >>]

cTest == [size |-> maxSize,     ok |-> TRUE,  subject |-> "Test", gtd |-> NoGtd]
cHuge == [size |-> maxSize + 1, ok |-> TRUE,  subject |-> "Huge", gtd |-> NoGtd]
cBad  == [size |-> 100,         ok |-> FALSE, subject |-> "Bad",  gtd |-> NoGtd]
ExtContents == {cTest, cHuge, cBad}

Path(dir, name) == [dir |-> dir, name |-> name]

\* paths the other actors create files at: the first name in any folder of
\* Kevin's mailbox, the second in its new/ and cur/
ExtPaths ==
  { Path(PeopleParent \o <<Kevin, f>>, ExtName1) : f \in Range(folders) }
    \cup { Path(PeopleParent \o <<Kevin, f>>, ExtName2) : f \in Range(sourceFolders) }


\* --------------------------------------------------------------- providers
NoProvider == "null"
\* CloudStorageManager.providers, in configuration order.  "onedrive" is the
\* shipped OneDriveProvider (BaseCloudStorageProvider: no write method);
\* "icloud" stands for a provider that also implements write.
providers == << "onedrive", "icloud" >>
ProviderHasWrite(p) == p = "icloud"

Ok(v) == [ok |-> TRUE, val |-> v]
Fail(e) == [ok |-> FALSE, val |-> e]

RECURSIVE SortNames(_)
SortNames(S) ==
  IF S = {} THEN << >>
  ELSE LET m == CHOOSE x \in S : \A y \in S : NameRank(x) <= NameRank(y)
       IN <<m>> \o SortNames(S \ {m})

\* BaseCloudStorageProvider.list of a folder holding files: every entry is
\* join(subfolder, file.name)
ProviderListFiles(fs, subfolder) ==
  IF subfolder \notin ExistingDirs THEN Fail("Directory not found")
  ELSE LET names == SortNames({ p.name : p \in { q \in DOMAIN fs : q.dir = subfolder } })
       IN Ok([ i \in 1..Len(names) |-> Path(subfolder, names[i]) ])

\* BaseCloudStorageProvider.list of a mailbox parent: directories get a
\* trailing separator
ProviderListDirs(subfolder) ==
  IF subfolder \notin ExistingDirs THEN Fail("Directory not found")
  ELSE LET es == ParentEntries(subfolder)
       IN Ok([ i \in 1..Len(es) |->
                 [segs |-> subfolder \o <<es[i].name>>, slash |-> es[i].isDir] ])

\* BaseCloudStorageProvider.read
ProviderRead(fs, path) ==
  IF path \notin DOMAIN fs THEN Fail("File not found") ELSE Ok(fs[path])

\* BaseCloudStorageProvider.stat
ProviderStat(fs, path) ==
  IF path \notin DOMAIN fs THEN Fail("File not found")
  ELSE Ok([path |-> path, name |-> path.name, size |-> fs[path].size])

\* write(path, text) of the storage interface: creates or replaces the
\* file at path inside an existing directory
ProviderWrite(fs, path, content) ==
  IF path.dir \notin ExistingDirs THEN Fail("Directory not found")
  ELSE Ok([ q \in DOMAIN fs \cup {path} |-> IF q = path THEN content ELSE fs[q] ])

\* ---------------------------------------------------- CloudStorageManager
NotInitialized == Fail("NOT_INITIALIZED")

\* CloudStorageManager.list / read / stat / write: getProvider() then delegate
storageListFiles(ap, fs, subfolder) ==
  IF ap = NoProvider THEN NotInitialized ELSE ProviderListFiles(fs, subfolder)
storageListDirs(ap, subfolder) ==
  IF ap = NoProvider THEN NotInitialized ELSE ProviderListDirs(subfolder)
storageRead(ap, fs, path) ==
  IF ap = NoProvider THEN NotInitialized ELSE ProviderRead(fs, path)
storageStat(ap, fs, path) ==
  IF ap = NoProvider THEN NotInitialized ELSE ProviderStat(fs, path)
storageWrite(ap, fs, path, content) ==
  IF ap = NoProvider THEN NotInitialized
  ELSE IF ~ProviderHasWrite(ap) THEN Fail("TypeError: write is not a function")
  ELSE ProviderWrite(fs, path, content)

\* the configuration the constructor completes: autoDetect unless switched off
DefaultConfig == [ autoDetect |-> TRUE, preferredProvider |-> Undef ]

FirstAvailable(av) ==
  LET I == { i \in 1..Len(providers) : av[providers[i]] }
  IN IF I = {} THEN NoProvider
     ELSE providers[CHOOSE i \in I : \A j \in I : i <= j]

\* ------------------------------------------------------ mailbox directory
Last(s) == s[Len(s)]

\* email of a listed directory entry: strip the separator, keep the last
\* path segment
EntryEmail(e) == Last(e.segs)

\* containsPlus finding no '+' in any address
containsPlus_Never(email) == FALSE

containsPlus(email) == email = Agent

\* one of the two try blocks of listMailboxes
MailboxesUnder(ap, parent, type) ==
  LET r == storageListDirs(ap, parent)
  IN IF ~r.ok THEN << >>
     ELSE LET dirs == SelectSeq(r.val, LAMBDA e : e.slash)
          IN [ i \in 1..Len(dirs) |->
                 [ email |-> EntryEmail(dirs[i]),
                   path |-> parent \o << EntryEmail(dirs[i]) >>,
                   type |-> type,
                   category |-> IF type = "organization" THEN Undef
                                ELSE IF containsPlus(EntryEmail(dirs[i]))
                                  THEN "ai-agent" ELSE "human" ] ]

\* listMailboxes giving up on every mailbox when one listing fails
listMailboxes_AllOrNothing(ap) ==
  IF storageListDirs(ap, OrgParent).ok /\ storageListDirs(ap, PeopleParent).ok
  THEN MailboxesUnder(ap, OrgParent, "organization")
         \o MailboxesUnder(ap, PeopleParent, "person")
  ELSE << >>

listMailboxes(ap) ==
  MailboxesUnder(ap, OrgParent, "organization")
    \o MailboxesUnder(ap, PeopleParent, "person")

\* the storage.list calls listMailboxes makes, in order, and how each ended
listMailboxesCalls(ap) ==
  << [subfolder |-> OrgParent, ok |-> storageListDirs(ap, OrgParent).ok],
     [subfolder |-> PeopleParent, ok |-> storageListDirs(ap, PeopleParent).ok] >>

\* letter case folded, for the addresses of the universe
LowerCase(a) == IF a = KevinUpper THEN Kevin ELSE a

\* MailboxMatches comparing without regard to letter case
MailboxMatches_IgnoreCase(mb, email) == LowerCase(mb.email) = LowerCase(email)

\* mailboxes.find(mb => mb.email === email)
MailboxMatches(mb, email) == mb.email = email

\* getMailboxPath: the path of the first matching mailbox, or the failure
getMailboxPath(ap, email) ==
  LET mbs == listMailboxes(ap)
      I == { i \in 1..Len(mbs) : MailboxMatches(mbs[i], email) }
  IN IF I = {} THEN Fail("Mailbox not found")
     ELSE Ok(mbs[CHOOSE i \in I : \A j \in I : i <= j].path)


\* ------------------------------------------------------------ message codec
\* Texts are sequences of characters.  A JavaScript string is truthy unless
\* it is empty; an absent field is undefined
Truthy(v) == v # Undef /\ v # ""

\* Array.prototype.join(', ')
RECURSIVE JoinTags(_)
JoinTags(tags) ==
  IF tags = << >> THEN << >>
  ELSE IF Len(tags) = 1 THEN tags[1]
  ELSE tags[1] \o << ",", " " >> \o JoinTags(Tail(tags))

\* String.prototype.split(','): the segments between the commas
RECURSIVE SplitComma(_)
SplitComma(t) ==
  LET commas == { i \in 1..Len(t) : t[i] = "," }
  IN IF commas = {} THEN << t >>
     ELSE LET i == CHOOSE k \in commas : \A j \in commas : k <= j
          IN << SubSeq(t, 1, i - 1) >> \o SplitComma(SubSeq(t, i + 1, Len(t)))

\* String.prototype.trim
RECURSIVE Trim(_)
Trim(t) ==
  IF t # << >> /\ t[1] = " " THEN Trim(Tail(t))
  ELSE IF t # << >> /\ t[Len(t)] = " " THEN Trim(SubSeq(t, 1, Len(t) - 1))
  ELSE t

\* EmailMessageService.buildGTDHeaders: no metadata, no headers; a header
\* for every truthy field, and X-GTD-Tags for a tag list that is not empty.
\* The tags field of the metadata and the tags header are << >> when
\* absent and a one-element sequence when present
buildGTDHeaders(gtd) ==
  IF gtd = << >> THEN NoGtd
  ELSE [ project  |-> IF Truthy(gtd[1].project) THEN gtd[1].project ELSE Undef,
         context  |-> IF Truthy(gtd[1].context) THEN gtd[1].context ELSE Undef,
         priority |-> IF Truthy(gtd[1].priority) THEN gtd[1].priority ELSE Undef,
         status   |-> IF Truthy(gtd[1].status) THEN gtd[1].status ELSE Undef,
         tags     |-> IF gtd[1].tags # << >> /\ Len(gtd[1].tags[1]) > 0
                      THEN << JoinTags(gtd[1].tags[1]) >> ELSE << >> ]

\* EmailMessageService.parseTags: no header or an empty one, no tags;
\* otherwise the trimmed segments between the commas
parseTags(tagsHeader) ==
  IF tagsHeader = << >> \/ tagsHeader[1] = << >> THEN << >>
  ELSE LET parts == SplitComma(tagsHeader[1])
       IN << [ i \in 1..Len(parts) |-> Trim(parts[i]) ] >>

\* EmailMessageService.extractGTDMetadata: the five headers, looked up by
\* lower-case name
extractGTDMetadata(headers) ==
  [ project  |-> headers.project,
    context  |-> headers.context,
    priority |-> headers.priority,
    status   |-> headers.status,
    tags     |-> parseTags(headers.tags) ]

\* EmailMessageService.createMessage: the .eml text of the message
createMessage(subject, gtd) ==
  [ size |-> 100, ok |-> TRUE, subject |-> subject, gtd |-> buildGTDHeaders(gtd) ]

\* EmailMessageService.parseMessage: fails on what it cannot decode
parseMessage(content) ==
  IF ~content.ok THEN Fail("parse error")
  ELSE Ok([ subject |-> content.subject, gtd |-> extractGTDMetadata(content.gtd) ])

\* the sentinel address of a message without sender
UnknownAddress == "unknown@swoft.ai"

\* EmailMessageService.generateMessageId: `<${timestamp}.${random}@swoft.ai>`
generateMessageId(now, random) ==
  [ timestamp |-> now, token |-> random, domain |-> "swoft.ai" ]

\* An address header of the parsed mail is << >> when the header is absent
\* and otherwise the sequence of its AddressObjects (one object, or the
\* array of them); an AddressObject holds the list `value` of its addresses.
\* EmailMessageService.extractAddress: the sentinel without a header, else
\* the first address of the first object; `addressObj.value[0]` is
\* undefined for an empty list and reading its address is a TypeError
extractAddress(parsed) ==
  IF parsed = << >> THEN Ok([ email |-> UnknownAddress, name |-> Undef ])
  ELSE LET addressObj == parsed[1]
       IN IF addressObj.value = << >>
          THEN Fail("TypeError: Cannot read properties of undefined (reading 'address')")
          ELSE LET firstAddress == addressObj.value[1]
               IN Ok([ email |-> IF Truthy(firstAddress.address) THEN firstAddress.address
                                 ELSE UnknownAddress,
                       name  |-> firstAddress.name ])

\* flatMap over the address objects
RECURSIVE FlatAddresses(_)
FlatAddresses(objs) ==
  IF objs = << >> THEN << >>
  ELSE [ i \in 1..Len(objs[1].value) |->
           [ email |-> IF Truthy(objs[1].value[i].address)
                       THEN objs[1].value[i].address ELSE UnknownAddress,
             name  |-> objs[1].value[i].name ] ]
       \o FlatAddresses(Tail(objs))

\* EmailMessageService.extractAddresses: no header, no recipients;
\* otherwise every address of every object
extractAddresses(parsed) ==
  IF parsed = << >> THEN << >> ELSE FlatAddresses(parsed)

\* the object parseMessage returns for what simpleParser made of the text:
\* the fields with their defaults, or the error of the address extraction
parseMessageFields(parsed, now, random) ==
  LET from == extractAddress(parsed.from)
  IN IF ~from.ok THEN Fail(from.val)
     ELSE Ok([ messageId |-> IF parsed.messageId # << >> THEN parsed.messageId[1]
                             ELSE generateMessageId(now, random),
               from      |-> from.val,
               to        |-> extractAddresses(parsed.to),
               subject   |-> IF parsed.subject # << >> /\ parsed.subject[1] # ""
                             THEN parsed.subject[1] ELSE "(No subject)",
               gtd       |-> extractGTDMetadata(parsed.headers) ])

\* the character class [_:] of the flag pattern, with only the underscore
separators_UnderscoreOnly == { "_" }

\* the character class [_:] of /[_:]2,([A-Z]*)/
separators == { "_", ":" }

\* the character class [A-Z]
UpperCase ==
  { "A", "B", "C", "D", "E", "F", "G", "H", "I", "J", "K", "L", "M",
    "N", "O", "P", "Q", "R", "S", "T", "U", "V", "W", "X", "Y", "Z" }

\* the positions of the text at which [_:]2, matches
MatchStarts(t) ==
  { i \in 1..(Len(t) - 2) : t[i] \in separators /\ t[i + 1] = "2" /\ t[i + 2] = "," }

\* ([A-Z]*) at position i: the longest run of upper-case letters
RECURSIVE UpperRun(_, _)
UpperRun(t, i) ==
  IF i > Len(t) \/ t[i] \notin UpperCase THEN << >>
  ELSE << t[i] >> \o UpperRun(t, i + 1)

\* `flagMatch ? flagMatch[1] : ''` for the leftmost match
flagMatch(t) ==
  IF MatchStarts(t) = {} THEN << >>
  ELSE UpperRun(t, (CHOOSE i \in MatchStarts(t) : \A j \in MatchStarts(t) : i <= j) + 3)

\* EmailMessageService.parseMaildirFlags on the text of a file name
parseMaildirFlags(filename) ==
  LET flags == flagMatch(filename)
  IN [ seen    |-> "S" \in Range(flags),
       replied |-> "R" \in Range(flags),
       flagged |-> "F" \in Range(flags),
       draft   |-> "D" \in Range(flags),
       trashed |-> "T" \in Range(flags) ]

\* -------------------------------------------------------- GTD inbox service
\* The name of a work item is a sequence of words: a leading word such as
\* "INBOX-", words of the title, and the extension last.
startsWith(name, prefix) == name # << >> /\ name[1] = prefix
endsWithMd(name) == name # << >> /\ name[Len(name)] = ".md"
includes(name, word) == \E i \in 1..Len(name) : name[i] = word

\* GTDInboxService.inferGTDStatus
inferGTDStatus(filename) ==
  IF startsWith(filename, "INBOX-") THEN "unclarified"
  ELSE IF startsWith(filename, "ISSUE-") THEN "blocked"
  ELSE IF startsWith(filename, "REPLY-") THEN "delegated"
  ELSE "unknown"

\* GTDInboxService.inferPriority
inferPriority(filename) ==
  IF includes(filename, "HIGH") \/ includes(filename, "URGENT") THEN "high"
  ELSE IF includes(filename, "NORMAL") THEN "normal"
  ELSE IF includes(filename, "LOW") THEN "low"
  ELSE "normal"

\* the two filters of enrichInboxItems
IsWorkItem(item) ==
  /\ item.type = "file" /\ endsWithMd(item.name)
  /\ ~startsWith(item.name, "REPLY-") /\ ~startsWith(item.name, "PROCESSING-")

\* GTDInboxService.enrichInboxItems
enrichInboxItems(listing) ==
  LET kept == SelectSeq(listing, IsWorkItem)
  IN [ i \in 1..Len(kept) |->
         [ id |-> kept[i].name, path |-> kept[i].path,
           status |-> inferGTDStatus(kept[i].name),
           priority |-> inferPriority(kept[i].name),
           requires_clarification |-> TRUE,
           modified |-> kept[i].modified, size |-> kept[i].size ] ]

\* the outcomes of the GTDOutcome type
GTDOutcomes ==
  { "next_action", "project", "waiting_for", "reference", "someday_maybe", "trash" }

UnknownOutcome == << "Unknown", "outcome", "type" >>

\* getRecommendedAction with an empty table
getRecommendedAction_NoTable(outcome) == UnknownOutcome

\* GTDInboxService.getRecommendedAction: the texts of the table, word by word
getRecommendedAction(outcome) ==
  CASE outcome = "next_action" ->
         << "Add", "to", "Next", "Actions", "list", "with", "context", "tags" >>
    [] outcome = "project" ->
         << "Create", "project", "plan", "with", "desired", "outcome", "and",
            "next", "actions" >>
    [] outcome = "waiting_for" ->
         << "Track", "in", "Waiting", "For", "list", "with", "trigger/due", "date" >>
    [] outcome = "reference" ->
         << "Move", "to", "Reference", "(processed", "folder)" >>
    [] outcome = "someday_maybe" ->
         << "Add", "to", "Someday/Maybe", "list", "for", "future", "review" >>
    [] outcome = "trash" -> << "Delete", "(no", "action", "needed)" >>
    [] OTHER -> UnknownOutcome

\* GTDInboxService.createClarificationDecision; the clarification is << >>
\* when the caller passed none, and reading a field of undefined is a
\* TypeError
createClarificationDecision(clarification, now) ==
  IF clarification = << >>
  THEN Fail("TypeError: Cannot read properties of undefined (reading 'what_is_it')")
  ELSE Ok([ what_is_it |-> clarification[1].what_is_it,
            is_actionable |-> clarification[1].is_actionable,
            outcome |-> clarification[1].outcome,
            recommended_action |-> getRecommendedAction(clarification[1].outcome),
            event |-> [ type |-> "InboxItemClarified", timestamp |-> now,
                        clarification |-> clarification[1] ] ])

\* ------------------------------------------------------------------- calls
IdleCall ==
  [ op |-> "none", pc |-> "idle", email |-> "", filename |-> << >>,
    limit |-> 0, folder |-> "", from |-> "", subject |-> "", gtd |-> << >>,
    mbox |-> << >>, listed |-> << >>, idx |-> 0, items |-> << >>,
    eml |-> << >>, trace |-> << >>, listFailed |-> FALSE,
    wrote |-> {}, args |-> << >>, listings |-> << >>, result |-> << >> ]

Throw(e) == << [kind |-> "throw", error |-> e] >>

Finish(call, res) == [ call EXCEPT !.pc = "done", !.result = res ]

\* arguments the callers pass
SentNames == { generateMaildirFilename(t, HostPid, << >>) : t \in 1..MaxClock }
FileArgs == ExtNames \cup SentNames
InboxLimits == {1, DefaultInboxLimit}
FolderArgs == {"new", "Reference", ".Reference"}
FolderLimits == {1, DefaultFolderLimit}
TargetArgs == {"Reference", "new"}
Senders == {Stranger}
GtdArgs ==
  { << >>,
    << [project |-> Undef, context |-> Undef, priority |-> Undef, tags |-> << >>] >>,
    << [project |-> "P", context |-> Undef, priority |-> "high", tags |-> << >>] >> }

Invoke(c, call) ==
  /\ calls[c].pc = "idle"
  /\ calls' = [calls EXCEPT ![c] = call]
  /\ UNCHANGED << config, missing, files, clock, activeProvider, available >>

InvokeGetInbox(c) ==
  \E email \in Addrs, limit \in InboxLimits :
    Invoke(c, [IdleCall EXCEPT !.op = "getInbox", !.pc = "resolve",
                               !.email = email, !.limit = limit])

InvokeGetFolder(c) ==
  \E email \in Addrs, folder \in FolderArgs, limit \in FolderLimits :
    Invoke(c, [IdleCall EXCEPT !.op = "getFolder", !.pc = "resolve",
                               !.email = email, !.folder = folder,
                               !.limit = limit])

InvokeSendMessage(c) ==
  /\ Cardinality(DOMAIN files) < MaxFiles
  /\ \E from \in Senders, to \in Addrs, gtd \in GtdArgs :
       Invoke(c, [IdleCall EXCEPT !.op = "sendMessage", !.pc = "resolve",
                                  !.email = to, !.from = from,
                                  !.subject = "Hi", !.gtd = gtd])

\* the pc that follows a successful getMailboxPath
AfterResolve(op) ==
  CASE op = "getInbox" -> "list"
    [] op = "getFolder" -> "list"
    [] op = "sendMessage" -> "create"

\* `const mailboxPath = await this.getMailboxPath(email)`, the first
\* statement of the operations: its failure leaves the operation
Resolve(c) ==
  /\ calls[c].pc = "resolve"
  /\ LET call == calls[c]
         r == getMailboxPath(activeProvider, call.email)
     IN calls' = [calls EXCEPT ![c] =
          IF r.ok
          THEN [ call EXCEPT !.mbox = r.val, !.idx = 1, !.pc = AfterResolve(call.op),
                             !.listings = listMailboxesCalls(activeProvider) ]
          ELSE Finish([ call EXCEPT !.listings = listMailboxesCalls(activeProvider) ],
                      Throw(r.val)) ]
  /\ UNCHANGED << config, missing, files, clock, activeProvider, available >>

\* the caller takes the result; the call record is free again
Return(c) ==
  /\ calls[c].pc = "done"
  /\ calls' = [calls EXCEPT ![c] = IdleCall]
  /\ UNCHANGED << config, missing, files, clock, activeProvider, available >>

\* -------------------------------------------------------------- readMessage
\* the folders readMessage searches, in order
probeFolders == folders

\* ReadMessageMiss raising an error where the source returns null
ReadMessageMiss_Throws == Throw("Message not found")

\* readMessage after the loop has tried every folder
ReadMessageMiss == << [kind |-> "return", message |-> << >>] >>

\* the loop of readMessage from folder i on: read and parse inside one try,
\* any failure goes on to the next folder
RECURSIVE ReadMessageFrom(_, _, _, _, _)
ReadMessageFrom(ap, fs, mailboxPath, filename, i) ==
  IF i > Len(probeFolders) THEN ReadMessageMiss
  ELSE LET fullPath == Path(mailboxPath \o << probeFolders[i] >>, filename)
           r == storageRead(ap, fs, fullPath)
           m == IF r.ok THEN parseMessage(r.val) ELSE r
       IN IF m.ok THEN << [kind |-> "return", message |-> << m.val >>] >>
          ELSE ReadMessageFrom(ap, fs, mailboxPath, filename, i + 1)

readMessage(ap, fs, email, filename) ==
  LET r == getMailboxPath(ap, email)
  IN IF ~r.ok THEN Throw(r.val)
     ELSE ReadMessageFrom(ap, fs, r.val, filename, 1)

\* mailboxPath of a one-step operation, << >> when getMailboxPath failed
ResolvedPath(ap, email) ==
  LET r == getMailboxPath(ap, email) IN IF r.ok THEN r.val ELSE << >>

ReadMessage(c) ==
  /\ \E email \in Addrs, filename \in FileArgs :
       Invoke(c, Finish([IdleCall EXCEPT !.op = "readMessage", !.email = email,
                                         !.filename = <<filename>>,
                                         !.mbox = ResolvedPath(activeProvider, email)],
                        readMessage(activeProvider, files, email, filename)))

\* ------------------------------------------------------------- moveToFolder
DotPrefixed(folder) ==
  CASE folder = "Next-Actions" -> ".Next-Actions"
    [] folder = "Waiting-For" -> ".Waiting-For"
    [] folder = "Projects" -> ".Projects"
    [] folder = "Someday-Maybe" -> ".Someday-Maybe"
    [] folder = "Reference" -> ".Reference"
    [] folder = "new" -> ".new"
    [] folder = "cur" -> ".cur"
    [] folder = ".Reference" -> "..Reference"
    [] OTHER -> folder

\* targetFolderPath leaving every name as it is
targetFolderPath_NoDot(targetFolder) == targetFolder

\* targetFolderPath of moveToFolder
targetFolderPath(targetFolder) ==
  IF targetFolder = "new" \/ targetFolder = "cur" THEN targetFolder
  ELSE DotPrefixed(targetFolder)

\* the source search of moveToFolder from folder i on
RECURSIVE FindSourceFolder(_, _, _, _, _)
FindSourceFolder(ap, fs, mailboxPath, filename, i) ==
  IF i > Len(sourceFolders) THEN << >>
  ELSE IF storageStat(ap, fs, Path(mailboxPath \o << sourceFolders[i] >>, filename)).ok
    THEN << sourceFolders[i] >>
    ELSE FindSourceFolder(ap, fs, mailboxPath, filename, i + 1)

\* moveToFolder reporting success for a file it found
moveToFolder_ReportsSuccess(ap, fs, email, filename, targetFolder) ==
  LET r == getMailboxPath(ap, email)
  IN IF ~r.ok THEN Throw(r.val)
     ELSE LET sourceFolder == FindSourceFolder(ap, fs, r.val, filename, 1)
          IN IF sourceFolder = << >>
             THEN << [ kind |-> "return", success |-> FALSE,
                       message |-> "not found in new/ or cur/",
                       source |-> "", target |-> "" ] >>
             ELSE << [ kind |-> "return", success |-> TRUE,
                       message |-> "moved",
                       source |-> sourceFolder[1],
                       target |-> targetFolderPath(targetFolder) ] >>

moveToFolder(ap, fs, email, filename, targetFolder) ==
  LET r == getMailboxPath(ap, email)
  IN IF ~r.ok THEN Throw(r.val)
     ELSE LET sourceFolder == FindSourceFolder(ap, fs, r.val, filename, 1)
          IN IF sourceFolder = << >>
             THEN << [ kind |-> "return", success |-> FALSE,
                       message |-> "not found in new/ or cur/",
                       source |-> "", target |-> "" ] >>
             ELSE << [ kind |-> "return", success |-> FALSE,
                       message |-> "not yet implemented",
                       source |-> sourceFolder[1],
                       target |-> targetFolderPath(targetFolder) ] >>

MoveToFolder(c) ==
  /\ \E email \in Addrs, filename \in ExtNames, target \in TargetArgs :
       Invoke(c, Finish([IdleCall EXCEPT !.op = "moveToFolder", !.email = email,
                                         !.filename = <<filename>>,
                                         !.folder = target,
                                         !.mbox = ResolvedPath(activeProvider, email)],
                        moveToFolder(activeProvider, files, email, filename, target)))

\* ------------------------------------------------- request dispatcher (MCP)
\* A parameter of a request is << >> when the caller left it out.  A missing
\* address reaches the service as undefined, a missing file name as the
\* name 'undefined' inside the path.
UndefName == [ts |-> 0, pid |-> Undef, flags |-> << >>, ext |-> Undef]
ParamEmail(p) == IF p = << >> THEN Undef ELSE p[1]
ParamName(p) == IF p = << >> THEN UndefName ELSE p[1]

\* case 'read_doc'
toolReadDoc(ap, fs, params) ==
  IF params.filename = << >> THEN Throw("filename parameter required")
  ELSE LET content == storageRead(ap, fs, params.filename[1])
       IN IF ~content.ok THEN Throw(content.val)
          ELSE << [kind |-> "return", text |-> content.val] >>

\* case 'gtd_list_inboxes'
toolListInboxes(ap) ==
  LET mailboxes == listMailboxes(ap)
  IN << [ kind |-> "return",
          text |-> [ mailboxes |-> [ i \in 1..Len(mailboxes) |-> mailboxes[i].email ],
                     count |-> Len(mailboxes) ] ] >>

\* case 'gtd_clarify_item': readMessage, then the decision of the service
toolClarifyItem(ap, fs, now, params) ==
  LET email == ParamEmail(params.inbox_owner)
      filename == ParamName(params.item_filename)
      message == readMessage(ap, fs, email, filename)
  IN IF message[1].kind = "throw" THEN message
     ELSE IF message[1].message = << >> THEN Throw("Message not found")
     ELSE LET gtdDecision == createClarificationDecision(params.clarification, now)
          IN IF ~gtdDecision.ok THEN Throw(gtdDecision.val)
             ELSE << [ kind |-> "return",
                       text |-> [ message |-> [ filename |-> filename,
                                                subject |-> message[1].message[1].subject ],
                                  clarification |-> gtdDecision.val,
                                  next_action |->
                                    "Move to appropriate GTD folder based on outcome" ] ] >>

\* case 'gtd_organize_to_reference': the result of moveToFolder as it is
toolOrganizeToReference(ap, fs, params) ==
  LET result == moveToFolder(ap, fs, ParamEmail(params.inbox_owner),
                             ParamName(params.item_filename), "Reference")
  IN IF result[1].kind = "throw" THEN result
     ELSE << [kind |-> "return", text |-> result[1]] >>

\* the switch of the handler
toolSwitch(ap, fs, now, name, params) ==
  CASE name = "read_doc" -> toolReadDoc(ap, fs, params)
    [] name = "gtd_list_inboxes" -> toolListInboxes(ap)
    [] name = "gtd_clarify_item" -> toolClarifyItem(ap, fs, now, params)
    [] name = "gtd_organize_to_reference" -> toolOrganizeToReference(ap, fs, params)
    [] OTHER -> Throw("Unknown tool")

\* the response of the handler: the content the case returned, or what the
\* catch makes of the error
RenderResponse(r) ==
  IF r[1].kind = "throw"
  THEN [ isError |-> TRUE, text |-> [prefix |-> "Error: ", message |-> r[1].error] ]
  ELSE [ isError |-> FALSE, text |-> r[1].text ]

\* the handler: the switch inside try, the catch renders the error
CallToolHandler(ap, fs, now, name, params) ==
  RenderResponse(toolSwitch(ap, fs, now, name, params))

\* toolFiles where clarifying with outcome trash deletes the item
toolFiles_ClarifyTrashes(ap, fs, name, params) ==
  LET email == ParamEmail(params.inbox_owner)
      p == Path(ResolvedPath(ap, email) \o << "new" >>, ParamName(params.item_filename))
  IN IF /\ name = "gtd_clarify_item" /\ params.clarification # << >>
        /\ params.clarification[1].outcome = "trash" /\ p \in DOMAIN fs
     THEN [ q \in DOMAIN fs \ {p} |-> fs[q] ]
     ELSE fs

\* the files after a request: the handler calls storage.read, list and stat
\* only, no tool writes, moves or deletes
toolFiles(ap, fs, name, params) == fs

\* ----------------------------------------------------------------- getInbox
Min(a, b) == IF a < b THEN a ELSE b

\* limitedFiles without the slice
limitedFiles_NoSlice(listing, limit) ==
  SelectSeq(listing, LAMBDA e : endsWithEml(e.name))

\* files.filter(f => f.endsWith('.eml')).slice(0, limit)
limitedFiles(listing, limit) ==
  LET emlFiles == SelectSeq(listing, LAMBDA e : endsWithEml(e.name))
  IN SubSeq(emlFiles, 1, Min(limit, Len(emlFiles)))

ReturnItems(call) == Finish(call, << [kind |-> "return", items |-> call.items] >>)

\* ListingFailed passing the error of storage.list on to the caller
ListingFailed_Rethrows(call) ==
  Finish([call EXCEPT !.listFailed = TRUE], Throw("Directory not found"))

\* the outer catch of getInbox and of getFolder: log, return []
ListingFailed(call) ==
  Finish([call EXCEPT !.listFailed = TRUE], << [kind |-> "return", items |-> << >>] >>)

\* end of one loop iteration
NextEntry(call, pc) ==
  IF call.idx < Len(call.listed)
  THEN [ call EXCEPT !.idx = @ + 1, !.pc = pc ]
  ELSE ReturnItems(call)

\* the file the storage holds at a listed path: << >> when there is none
Held(fs, p) == IF p \in DOMAIN fs THEN << fs[p] >> ELSE << >>

\* what happened to one listed entry: the file held at the listed path when
\* the entry was last looked at, the size stat reported (-1: none), whether
\* storage.read and parseMessage were invoked for it, the outcome
TraceEntry(held, name, size, read, decoded, outcome) ==
  [ held |-> held, name |-> name, size |-> size, read |-> read,
    decoded |-> decoded, outcome |-> outcome ]

Logged(call, e) == [ call EXCEPT !.trace = Append(@, e) ]

\* The inner catch of getInbox logs `filename`, a const declared inside the
\* try block: the catch block itself throws a ReferenceError, which the
\* outer catch of getInbox turns into the result [].
GetInboxItemFailed(call) ==
  Finish(call, << [kind |-> "return", items |-> << >>] >>)

\* TooLarge with the limit itself counted as too large
TooLarge_AtLimit(size) == size >= maxSize

\* `metadata.size > maxSize`
TooLarge(size) == size > maxSize

Placeholder(entry) ==
  [ filename |-> entry.name, path |-> entry,
    messageId |-> "error-file-too-large", subject |-> "File too large",
    folder |-> "new",
    flags |-> [seen |-> FALSE, replied |-> FALSE, flagged |-> TRUE],
    gtd |-> [project |-> Undef, context |-> Undef, priority |-> "high",
             status |-> "new"] ]

InboxItem(entry, parsed) ==
  [ filename |-> entry.name, path |-> entry,
    messageId |-> "parsed", subject |-> parsed.subject,
    folder |-> "new",
    flags |-> [seen |-> FALSE, replied |-> FALSE, flagged |-> FALSE],
    gtd |-> parsed.gtd ]

GetInboxList(c) ==
  /\ calls[c].pc = "list" /\ calls[c].op = "getInbox"
  /\ LET call == calls[c]
         inboxPath == call.mbox \o << "new" >>
         r == storageListFiles(activeProvider, files, inboxPath)
     IN calls' = [calls EXCEPT ![c] =
          IF ~r.ok THEN ListingFailed(call)
          ELSE LET lf == limitedFiles(r.val, call.limit)
               IN IF lf = << >> THEN ReturnItems(call)
                  ELSE [ call EXCEPT !.listed = lf, !.idx = 1, !.pc = "stat" ] ]
  /\ UNCHANGED << config, missing, files, clock, activeProvider, available >>

\* `await this.storage.stat(fullPath)` and the size guard
GetInboxStat(c) ==
  /\ calls[c].pc = "stat"
  /\ LET call == calls[c]
         fullPath == call.listed[call.idx]
         r == storageStat(activeProvider, files, fullPath)
     IN calls' = [calls EXCEPT ![c] =
          IF ~r.ok
          THEN GetInboxItemFailed(
                 Logged(call, TraceEntry(Held(files, fullPath), fullPath.name, -1,
                                        FALSE, FALSE, "failed")))
          ELSE IF TooLarge(r.val.size)
            THEN NextEntry(
                   Logged([call EXCEPT !.items = Append(@, Placeholder(fullPath))],
                          TraceEntry(Held(files, fullPath), fullPath.name, r.val.size,
                                     FALSE, FALSE, "placeholder")),
                   "stat")
            ELSE [ Logged(call, TraceEntry(Held(files, fullPath), fullPath.name,
                                            r.val.size, FALSE, FALSE, "stat"))
                     EXCEPT !.pc = "read" ] ]
  /\ UNCHANGED << config, missing, files, clock, activeProvider, available >>

\* `await this.storage.read(fullPath)`, parseMessage, items.push
GetInboxRead(c) ==
  /\ calls[c].pc = "read" /\ calls[c].op = "getInbox"
  /\ LET call == calls[c]
         fullPath == call.listed[call.idx]
         r == storageRead(activeProvider, files, fullPath)
         m == IF r.ok THEN parseMessage(r.val) ELSE r
         k == Len(call.trace)
         seen == [ call EXCEPT !.trace[k].read = TRUE, !.trace[k].decoded = r.ok,
                               !.trace[k].held = Held(files, fullPath) ]
     IN calls' = [calls EXCEPT ![c] =
          IF ~m.ok
          THEN GetInboxItemFailed([ seen EXCEPT !.trace[k].outcome = "failed" ])
          ELSE NextEntry([ seen EXCEPT !.trace[k].outcome = "decoded",
                                       !.items = Append(@, InboxItem(fullPath, m.val)) ],
                         "stat") ]
  /\ UNCHANGED << config, missing, files, clock, activeProvider, available >>

\* ---------------------------------------------------------------- getFolder
startsWithDot(folder) == folder \in Range(folders) \ {"new", "cur"}

\* folderPath of getFolder
folderPath(mailboxPath, folder) ==
  IF startsWithDot(folder) \/ folder = "new" \/ folder = "cur"
  THEN mailboxPath \o << folder >>
  ELSE mailboxPath \o << DotPrefixed(folder) >>

\* `${folderPath}/${filename}` where filename is an entry of the listing
JoinEntry(dir, entry) == Path(dir \o entry.dir, entry.name)

FolderItem(entry, fullPath, parsed, folder) ==
  [ filename |-> entry, path |-> fullPath,
    messageId |-> "parsed", subject |-> parsed.subject,
    folder |-> folder, flags |-> parseMaildirFlags(FilenameText(entry.name)),
    gtd |-> parsed.gtd ]

\* the inner catch of getFolder: log, next entry
GetFolderItemFailed(call) == NextEntry(call, "read")

GetFolderList(c) ==
  /\ calls[c].pc = "list" /\ calls[c].op = "getFolder"
  /\ LET call == calls[c]
         r == storageListFiles(activeProvider, files, folderPath(call.mbox, call.folder))
     IN calls' = [calls EXCEPT ![c] =
          IF ~r.ok THEN ListingFailed(call)
          ELSE LET lf == limitedFiles(r.val, call.limit)
               IN IF lf = << >> THEN ReturnItems(call)
                  ELSE [ call EXCEPT !.listed = lf, !.idx = 1, !.pc = "read" ] ]
  /\ UNCHANGED << config, missing, files, clock, activeProvider, available >>

GetFolderRead(c) ==
  /\ calls[c].pc = "read" /\ calls[c].op = "getFolder"
  /\ LET call == calls[c]
         filename == call.listed[call.idx]
         fullPath == JoinEntry(folderPath(call.mbox, call.folder), filename)
         r == storageRead(activeProvider, files, fullPath)
         m == IF r.ok THEN parseMessage(r.val) ELSE r
     IN calls' = [calls EXCEPT ![c] =
          IF ~m.ok
          THEN GetFolderItemFailed(
                 Logged(call, TraceEntry(Held(files, filename), filename.name, -1,
                                        TRUE, r.ok, "failed")))
          ELSE NextEntry(
                 Logged([ call EXCEPT !.items =
                            Append(@, FolderItem(filename, fullPath, m.val, call.folder)) ],
                        TraceEntry(Held(files, filename), filename.name, -1,
                                   TRUE, TRUE, "decoded")),
                 "read") ]
  /\ UNCHANGED << config, missing, files, clock, activeProvider, available >>

\* -------------------------------------------------------------- sendMessage
\* the gtd option sendMessage hands to createMessage
SendGtd(gtd) ==
  IF gtd # << >>
  THEN << [ project |-> gtd[1].project, context |-> gtd[1].context,
            priority |-> gtd[1].priority, status |-> "new",
            tags |-> gtd[1].tags ] >>
  ELSE << >>

\* SendInboxPath delivering into cur/
SendInboxPath_Cur(recipientPath) == recipientPath \o << "cur" >>

\* `${recipientPath}/new`
SendInboxPath(recipientPath) == recipientPath \o << "new" >>

\* SendFullPath with one fixed file name for every message
SendFullPath_FixedName(inboxPath, filename) ==
  Path(inboxPath, generateMaildirFilename(0, HostPid, << >>))

\* `${inboxPath}/${filename}`
SendFullPath(inboxPath, filename) == Path(inboxPath, filename)

\* `await this.emailService.createMessage(...)`
SendCreate(c) ==
  /\ calls[c].pc = "create"
  /\ LET call == calls[c]
     IN calls' = [calls EXCEPT ![c] =
          [ call EXCEPT !.eml = << createMessage(call.subject, SendGtd(call.gtd)) >>,
                        !.pc = "write" ]]
  /\ UNCHANGED << config, missing, files, clock, activeProvider, available >>

\* generateMaildirFilename() and `await this.storage.write(fullPath, emlContent)`
SendWrite(c) ==
  /\ calls[c].pc = "write"
  /\ LET call == calls[c]
         filename == generateMaildirFilename(clock, HostPid, << >>)
         fullPath == SendFullPath(SendInboxPath(call.mbox), filename)
         r == storageWrite(activeProvider, files, fullPath, call.eml[1])
     IN IF r.ok
        THEN /\ files' = r.val
             /\ calls' = [calls EXCEPT ![c] =
                  Finish([call EXCEPT !.wrote = @ \cup {fullPath}],
                         << [ kind |-> "return", success |-> TRUE,
                              filename |-> filename, path |-> fullPath ] >>)]
        ELSE /\ files' = files
             /\ calls' = [calls EXCEPT ![c] = Finish(call, Throw(r.val))]
  /\ UNCHANGED << config, missing, clock, activeProvider, available >>

\* ------------------------------------------------------------ other actors
\* A finished call is handed to its caller at once: the other actors and
\* the manager take their next step after Return.
NoneDone == \A c \in Callers : calls[c].pc # "done"

\* another actor (sync client, team member) creates a file
ExtPut ==
  /\ NoneDone
  /\ Cardinality(DOMAIN files) < MaxFiles
  /\ \E p \in ExtPaths \ DOMAIN files, content \in ExtContents :
       files' = [ q \in DOMAIN files \cup {p} |-> IF q = p THEN content ELSE files[q] ]
  /\ UNCHANGED << config, missing, clock, activeProvider, available, calls >>

\* another actor deletes a file
ExtDelete ==
  /\ NoneDone
  /\ \E p \in DOMAIN files :
       files' = [ q \in DOMAIN files \ {p} |-> files[q] ]
  /\ UNCHANGED << config, missing, clock, activeProvider, available, calls >>

\* another actor moves a file to another folder of its mailbox
ExtMove ==
  /\ NoneDone
  /\ \E p \in DOMAIN files, f \in Range(folders) :
       LET t == Path(SubSeq(p.dir, 1, Len(p.dir) - 1) \o <<f>>, p.name)
       IN /\ t \in ExtPaths \ DOMAIN files
          /\ files' = [ q \in (DOMAIN files \ {p}) \cup {t} |->
                          IF q = t THEN files[p] ELSE files[q] ]
  /\ UNCHANGED << config, missing, clock, activeProvider, available, calls >>

\* a second passes
Tick ==
  /\ clock < MaxClock
  /\ clock' = clock + 1
  /\ UNCHANGED << config, missing, files, activeProvider, available, calls >>

\* ---------------------------------------------- CloudStorageManager actions
\* the provider initialize() takes from the configuration: the preferred
\* one, when auto-detection is off and it is configured and available
PreferredChoice(cfg, av) ==
  IF /\ ~cfg.autoDetect /\ Truthy(cfg.preferredProvider)
     /\ cfg.preferredProvider \in Range(providers)
     /\ av[cfg.preferredProvider]
  THEN cfg.preferredProvider ELSE NoProvider

\* CloudStorageManager.initialize: the active provider afterwards and how
\* the call ends
initialize(cfg, av, active) ==
  LET chosen == IF PreferredChoice(cfg, av) # NoProvider THEN PreferredChoice(cfg, av)
                ELSE FirstAvailable(av)
  IN IF chosen # NoProvider
     THEN [ active |-> chosen, result |-> << [kind |-> "return"] >> ]
     ELSE [ active |-> active, result |-> Throw("NO_PROVIDER_AVAILABLE") ]

\* switchProvider without the isAvailable() test
switchProvider_Unchecked(av, active, providerName) ==
  IF providerName \notin Range(providers)
  THEN [ active |-> active, result |-> Throw("PROVIDER_NOT_FOUND") ]
  ELSE [ active |-> providerName, result |-> << [kind |-> "return"] >> ]

\* CloudStorageManager.switchProvider
switchProvider(av, active, providerName) ==
  IF providerName \notin Range(providers)
  THEN [ active |-> active, result |-> Throw("PROVIDER_NOT_FOUND") ]
  ELSE IF ~av[providerName]
  THEN [ active |-> active, result |-> Throw("PROVIDER_NOT_AVAILABLE") ]
  ELSE [ active |-> providerName, result |-> << [kind |-> "return"] >> ]

\* initialize() as run() calls it at start-up
Initialize ==
  /\ NoneDone
  /\ activeProvider' = initialize(config, available, activeProvider).active
  /\ UNCHANGED << config, missing, files, clock, available, calls >>

ProviderNames == Range(providers) \cup {"dropbox"}

\* switchProvider(providerName)
SwitchProvider ==
  /\ NoneDone
  /\ \E name \in ProviderNames :
       activeProvider' = switchProvider(available, activeProvider, name).active
  /\ UNCHANGED << config, missing, files, clock, available, calls >>

\* BaseCloudStorageProvider.search: the files below the subfolder that the
\* pattern **/*.eml matches
ProviderSearch(fs, subfolder) ==
  Ok(SortNames({ p.name : p \in { q \in DOMAIN fs :
                   /\ Len(q.dir) >= Len(subfolder)
                   /\ SubSeq(q.dir, 1, Len(subfolder)) = subfolder
                   /\ endsWithEml(q.name) } }))

\* CloudStorageManager.search
storageSearch(ap, fs, subfolder) ==
  IF ap = NoProvider THEN NotInitialized ELSE ProviderSearch(fs, subfolder)

\* the calls on the manager: getProvider() and the five delegating methods
ManagerOps == { "getProvider", "list", "read", "search", "stat", "write" }
ManagerDir == PeopleParent \o << Kevin, "new" >>
ManagerPath == Path(ManagerDir, ExtName1)

managerCall(ap, fs, op) ==
  CASE op = "getProvider" -> IF ap = NoProvider THEN NotInitialized ELSE Ok(ap)
    [] op = "list" -> storageListFiles(ap, fs, ManagerDir)
    [] op = "read" -> storageRead(ap, fs, ManagerPath)
    [] op = "search" -> storageSearch(ap, fs, ManagerDir)
    [] op = "stat" -> storageStat(ap, fs, ManagerPath)
    [] op = "write" -> storageWrite(ap, fs, ManagerPath, cTest)

\* a call of initialize() with its outcome
ManagerInitialize(c) ==
  /\ calls[c].pc = "idle"
  /\ calls' = [calls EXCEPT ![c] =
       Finish([IdleCall EXCEPT !.op = "initialize"],
              initialize(config, available, activeProvider).result)]
  /\ activeProvider' = initialize(config, available, activeProvider).active
  /\ UNCHANGED << config, missing, files, clock, available >>

\* a call of switchProvider(providerName) with its outcome
ManagerSwitch(c) ==
  /\ calls[c].pc = "idle"
  /\ \E name \in ProviderNames :
       /\ calls' = [calls EXCEPT ![c] =
            Finish([IdleCall EXCEPT !.op = "switchProvider", !.args = << name >>],
                   switchProvider(available, activeProvider, name).result)]
       /\ activeProvider' = switchProvider(available, activeProvider, name).active
  /\ UNCHANGED << config, missing, files, clock, available >>

\* a call of getProvider, list, read, search, stat or write
ManagerCall(c) ==
  /\ calls[c].pc = "idle"
  /\ \E op \in ManagerOps :
       /\ calls' = [calls EXCEPT ![c] =
            Finish([IdleCall EXCEPT !.op = op],
                   IF managerCall(activeProvider, files, op).ok
                   THEN << [kind |-> "return"] >>
                   ELSE Throw(managerCall(activeProvider, files, op).val))]
       /\ files' = IF op = "write" /\ managerCall(activeProvider, files, op).ok
                   THEN managerCall(activeProvider, files, op).val ELSE files
  /\ UNCHANGED << config, missing, clock, activeProvider, available >>

\* the synced workspace folder of a provider appears or disappears
\* (isAvailable() is existsSync of it)
SetAvailable ==
  /\ NoneDone
  /\ \E p \in Range(providers) :
       available' = [available EXCEPT ![p] = ~@]
  /\ UNCHANGED << config, missing, files, clock, activeProvider, calls >>

\* ----------------------------------------------------------- specifications
NoFiles == [ p \in {} |-> cTest ]

Init ==
  /\ files = NoFiles
  /\ clock = 1
  /\ activeProvider = NoProvider
  /\ available = [ p \in Range(providers) |-> TRUE ]
  /\ calls = [ c \in Callers |-> IdleCall ]
  /\ config = DefaultConfig
  /\ missing = {}

\* Spec: the service and the storage manager, one caller at a time, no
\* other actor
Next ==
  \/ \E c \in MainCallers : InvokeGetInbox(c)
  \/ \E c \in MainCallers : InvokeGetFolder(c)
  \/ \E c \in MainCallers : InvokeSendMessage(c)
  \/ \E c \in MainCallers : Resolve(c)
  \/ \E c \in MainCallers : GetInboxList(c)
  \/ \E c \in MainCallers : GetInboxStat(c)
  \/ \E c \in MainCallers : GetInboxRead(c)
  \/ \E c \in MainCallers : GetFolderList(c)
  \/ \E c \in MainCallers : GetFolderRead(c)
  \/ \E c \in MainCallers : ReadMessage(c)
  \/ \E c \in MainCallers : MoveToFolder(c)
  \/ \E c \in MainCallers : SendCreate(c)
  \/ \E c \in MainCallers : SendWrite(c)
  \/ \E c \in MainCallers : Return(c)
  \/ Tick
  \/ Initialize
  \/ SwitchProvider

Spec == Init /\ [][Next]_vars

\* SpecEnv: the shipped stack (initialize() picks OneDrive) with other
\* actors changing the mailbox of Kevin between the steps of a call
NextEnv ==
  \/ \E c \in MainCallers : InvokeGetInbox(c)
  \/ \E c \in MainCallers : InvokeGetFolder(c)
  \/ \E c \in MainCallers : Resolve(c)
  \/ \E c \in MainCallers : GetInboxList(c)
  \/ \E c \in MainCallers : GetInboxStat(c)
  \/ \E c \in MainCallers : GetInboxRead(c)
  \/ \E c \in MainCallers : GetFolderList(c)
  \/ \E c \in MainCallers : GetFolderRead(c)
  \/ \E c \in MainCallers : ReadMessage(c)
  \/ \E c \in MainCallers : MoveToFolder(c)
  \/ \E c \in MainCallers : Return(c)
  \/ ExtPut
  \/ ExtDelete
  \/ ExtMove
  \/ Initialize

SpecEnv == Init /\ [][NextEnv]_vars

\* SpecSend: concurrent senders
NextSend ==
  \/ \E c \in Callers : InvokeSendMessage(c)
  \/ \E c \in Callers : Resolve(c)
  \/ \E c \in Callers : SendCreate(c)
  \/ \E c \in Callers : SendWrite(c)
  \/ \E c \in Callers : Return(c)
  \/ Tick
  \/ Initialize
  \/ SwitchProvider

SpecSend == Init /\ [][NextSend]_vars

\* SpecDir: workspaces in which a mailbox parent may be missing
ListMailboxes(c) ==
  Invoke(c, Finish([IdleCall EXCEPT !.op = "listMailboxes",
                                    !.listings = listMailboxesCalls(activeProvider)],
                   << [kind |-> "return", mailboxes |-> listMailboxes(activeProvider)] >>))

InitDir ==
  /\ files = NoFiles
  /\ clock = 1
  /\ activeProvider = NoProvider
  /\ available = [ p \in Range(providers) |-> TRUE ]
  /\ calls = [ c \in Callers |-> IdleCall ]
  /\ config = DefaultConfig
  /\ missing \in SUBSET {OrgParent, PeopleParent}

NextDir ==
  \/ \E c \in MainCallers : ListMailboxes(c)
  \/ \E c \in MainCallers : InvokeGetInbox(c)
  \/ \E c \in MainCallers : Resolve(c)
  \/ \E c \in MainCallers : GetInboxList(c)
  \/ \E c \in MainCallers : Return(c)
  \/ Initialize
  \/ SwitchProvider

SpecDir == InitDir /\ [][NextDir]_vars

\* SpecCodec: the pure functions of the file-name codec and of the folder
\* paths, applied to arguments drawn from bounded sets
GenFlags == { << >>, << "S" >> }

\* generateMaildirFilename(flags) run by some process at the current second
GenerateFilename(c) ==
  \E proc \in Procs, flags \in GenFlags :
    Invoke(c, Finish([IdleCall EXCEPT !.op = "generateMaildirFilename",
                                      !.args = << [proc |-> proc, flags |-> flags,
                                                   now |-> clock] >>],
                     << [ kind |-> "return",
                          filename |-> generateMaildirFilename(clock, proc.pid, flags) ] >>))

\* the folder names of the GTDFolder type and one that is already dotted
FolderNames == GTDFolders \cup {".Reference"}

\* the folder path getFolder lists and the one moveToFolder targets
FolderPaths(c) ==
  \E m \in ProvisionedMailboxes, f \in FolderNames :
    Invoke(c, Finish([IdleCall EXCEPT !.op = "folderPath",
                                      !.args = << [mailboxPath |-> m, folder |-> f] >>],
                     << [ kind |-> "return",
                          getFolder |-> folderPath(m, f),
                          moveToFolder |-> m \o << targetFolderPath(f) >> ] >>))

\* flag strings: the letters of a subset of S, R, F, D, T in any order, and
\* strings that hold other letters as well
FlagLetters == { "S", "R", "F", "D", "T" }
OtherLetters == { "S", "T", "X", "a" }
FlagStrings ==
  { f \in UNION { [1..n -> FlagLetters] : n \in 0..Cardinality(FlagLetters) } :
      \A i, j \in 1..Len(f) : f[i] = f[j] => i = j }
    \cup UNION { [1..n -> OtherLetters] : n \in 0..MaxFlagLen }

\* what stands between the unique id and the flags in a file name
Underscore2 == << "_", "2", "," >>
Colon2 == << ":", "2", "," >>
Separators == { Underscore2, Colon2, << >>, << "_", "2" >> }

\* parseMaildirFlags(filename) of a file name with the given flag string
ParseFlags(c) ==
  \E sep \in Separators, flags \in FlagStrings :
    LET text == IF sep = Underscore2
                THEN FilenameText(generateMaildirFilename(clock, HostPid, flags))
                ELSE uniqueId(clock, HostPid) \o sep \o flags \o ExtText(".eml")
    IN Invoke(c, Finish([IdleCall EXCEPT !.op = "parseMaildirFlags",
                                         !.args = << [sep |-> sep, flags |-> flags,
                                                      text |-> text] >>],
                        << [kind |-> "return", flags |-> parseMaildirFlags(text)] >>))

NextCodec ==
  \/ \E c \in MainCallers : FolderPaths(c)
  \/ \E c \in MainCallers : ParseFlags(c)
  \/ \E c \in Callers : GenerateFilename(c)
  \/ \E c \in Callers : Return(c)
  \/ Tick

SpecCodec == Init /\ [][NextCodec]_vars

\* SpecMessage: the message codec and the GTD inbox service, pure functions
\* applied to arguments drawn from bounded sets
MaxTagLen == 2
MaxTags == 2
MaxListing == 2

TagChars == { "a", ",", " " }
TagTexts == UNION { [1..n -> TagChars] : n \in 0..MaxTagLen }
TagLists == UNION { [1..n -> TagTexts] : n \in 0..MaxTags }
GtdRecords ==
  { [ project |-> p, context |-> x, priority |-> y, status |-> s, tags |-> t ] :
      p \in { Undef, "P", "" }, x \in { Undef, "@home" }, y \in { Undef, "high" },
      s \in { Undef, "next-action" },
      t \in { << >> } \cup { << l >> : l \in TagLists } }

\* createMessage's buildGTDHeaders followed by parseMessage's
\* extractGTDMetadata on the headers of the written message
RoundTripGtd(c) ==
  /\ calls[c].pc = "idle"
  /\ \E gtd \in { << >> } \cup { << g >> : g \in GtdRecords } :
    LET headers == buildGTDHeaders(gtd)
    IN Invoke(c, Finish([IdleCall EXCEPT !.op = "gtdRoundTrip",
                                         !.args = << [gtd |-> gtd] >>],
                        << [ kind |-> "return", headers |-> headers,
                             gtd |-> extractGTDMetadata(headers) ] >>))

\* what simpleParser makes of the address headers of a message
Addr1 == [ address |-> Kevin, name |-> "Kevin" ]
Addr2 == [ address |-> Team, name |-> Undef ]
AddrNoAddress == [ address |-> Undef, name |-> "Nobody" ]
AddressFields ==
  { << >>,
    << [value |-> << >>] >>,
    << [value |-> << Addr1 >>] >>,
    << [value |-> << AddrNoAddress >>] >>,
    << [value |-> << Addr1, Addr2 >>] >>,
    << [value |-> << Addr1 >>], [value |-> << Addr2 >>] >> }
ParsedMails ==
  { [ messageId |-> i, from |-> f, to |-> t, subject |-> s, headers |-> h ] :
      i \in { << >>, << [timestamp |-> 0, token |-> "sent", domain |-> "example.org"] >> },
      f \in AddressFields, t \in AddressFields,
      s \in { << >>, << "Hello" >> },
      h \in { NoGtd, [NoGtd EXCEPT !.tags = << << "a", ",", "a" >> >>] } }
RandomTokens == { "k3j9", "x0p2" }

\* parseMessage of a structurally valid message
DecodeMessage(c) ==
  /\ calls[c].pc = "idle"
  /\ \E parsed \in ParsedMails, random \in RandomTokens :
    LET r == parseMessageFields(parsed, clock, random)
    IN Invoke(c, Finish([IdleCall EXCEPT !.op = "parseMessage",
                                         !.args = << [parsed |-> parsed] >>],
                        IF r.ok THEN << [kind |-> "return", message |-> r.val] >>
                        ELSE Throw(r.val)))

\* the clarifications a caller passes
Clarifications ==
  { [ what_is_it |-> w, is_actionable |-> a, outcome |-> o ] :
      w \in { "bug", "" }, a \in BOOLEAN, o \in GTDOutcomes \cup { "later" } }

\* createClarificationDecision(clarification)
Clarify(c) ==
  /\ calls[c].pc = "idle"
  /\ \E clarification \in Clarifications :
    LET r == createClarificationDecision(<< clarification >>, clock)
    IN Invoke(c, Finish([IdleCall EXCEPT !.op = "createClarificationDecision",
                                         !.args = << [clarification |-> clarification] >>],
                        IF r.ok THEN << [kind |-> "return", decision |-> r.val] >>
                        ELSE Throw(r.val)))

\* raw directory entries
WorkNames ==
  { << "INBOX-", "task", ".md" >>, << "ISSUE-", "HIGH", ".md" >>,
    << "REPLY-", "task", ".md" >>, << "PROCESSING-", "task", ".md" >>,
    << "notes", ".md" >>, << "task", "REPLY-", ".md" >>,
    << "inbox-", "LOW", ".md" >>, << "INBOX-", "task", ".txt" >> }
WorkEntries ==
  { [ name |-> n, path |-> << "Team" >> \o n, type |-> "file", size |-> 10,
      modified |-> "2025-01-01" ] : n \in WorkNames }
    \cup { [ name |-> << "INBOX-", "dir", ".md" >>,
             path |-> << "Team", "INBOX-", "dir", ".md" >>, type |-> "directory",
             size |-> 0, modified |-> "2025-01-01" ] }
Listings == UNION { [1..n -> WorkEntries] : n \in 0..MaxListing }

\* enrichInboxItems(files)
Collect(c) ==
  /\ calls[c].pc = "idle"
  /\ \E listing \in Listings :
    Invoke(c, Finish([IdleCall EXCEPT !.op = "enrichInboxItems",
                                      !.args = << [files |-> listing] >>],
                     << [kind |-> "return", items |-> enrichInboxItems(listing)] >>))

NextMessage ==
  \/ \E c \in MainCallers : RoundTripGtd(c)
  \/ \E c \in MainCallers : DecodeMessage(c)
  \/ \E c \in MainCallers : Clarify(c)
  \/ \E c \in MainCallers : Collect(c)
  \/ \E c \in MainCallers : Return(c)
  \/ Tick

SpecMessage == Init /\ [][NextMessage]_vars

\* SpecTools: the request dispatcher over the shipped stack, with other
\* actors changing the mailbox of Kevin between the requests
NoParams == [ filename |-> << >>, inbox_owner |-> << >>, item_filename |-> << >>,
             clarification |-> << >> ]
ToolOwners == { << >>, << Kevin >>, << Readme >> }
ToolItems == { << >>, << ExtName1 >> }
ToolClarifications ==
  { << >> } \cup
  { << [what_is_it |-> "bug", is_actionable |-> a, outcome |-> o] >> :
      a \in { TRUE }, o \in { "next_action", "trash", "reference" } }
ToolRequests ==
  { [ name |-> "read_doc", params |-> [NoParams EXCEPT !.filename = f] ] :
      f \in { << >>, << Path(PeopleParent \o << Kevin, "new" >>, ExtName1) >> } }
  \cup { [ name |-> "gtd_clarify_item",
           params |-> [NoParams EXCEPT !.inbox_owner = o, !.item_filename = i,
                                       !.clarification = k] ] :
           o \in ToolOwners, i \in ToolItems, k \in ToolClarifications }
  \cup { [ name |-> "gtd_organize_to_reference",
           params |-> [NoParams EXCEPT !.inbox_owner = o, !.item_filename = i] ] :
           o \in ToolOwners, i \in ToolItems }
  \cup { [ name |-> n, params |-> NoParams ] : n \in { "gtd_list_inboxes", "gtd_delete_item" } }

\* one request handled from its arrival to the response
CallTool(c) ==
  /\ calls[c].pc = "idle"
  /\ \E req \in ToolRequests :
       /\ calls' = [calls EXCEPT ![c] =
            Finish([IdleCall EXCEPT !.op = req.name, !.args = << req.params >>],
                   << [ kind |-> "response",
                        payload |-> CallToolHandler(activeProvider, files, clock,
                                                    req.name, req.params) ] >>)]
       /\ files' = toolFiles(activeProvider, files, req.name, req.params)
  /\ UNCHANGED << config, missing, clock, activeProvider, available >>

NextTools ==
  \/ \E c \in MainCallers : CallTool(c)
  \/ \E c \in MainCallers : Return(c)
  \/ ExtPut
  \/ ExtDelete
  \/ ExtMove
  \/ Initialize

SpecTools == Init /\ [][NextTools]_vars

\* SpecManager: the provider selection of CloudStorageManager under every
\* configuration, while the providers come and go
Configs ==
  { [ autoDetect |-> a, preferredProvider |-> p ] :
      a \in BOOLEAN, p \in { Undef, "icloud", "dropbox" } }

InitManager ==
  /\ files = NoFiles
  /\ clock = 1
  /\ activeProvider = NoProvider
  /\ available = [ p \in Range(providers) |-> TRUE ]
  /\ calls = [ c \in Callers |-> IdleCall ]
  /\ missing = {}
  /\ config \in Configs

NextManager ==
  \/ \E c \in MainCallers : ManagerInitialize(c)
  \/ \E c \in MainCallers : ManagerSwitch(c)
  \/ \E c \in MainCallers : ManagerCall(c)
  \/ \E c \in MainCallers : Return(c)
  \/ SetAvailable

SpecManager == InitManager /\ [][NextManager]_vars

TypeOK ==
  /\ clock \in 1..MaxClock
  /\ activeProvider \in Range(providers) \cup {NoProvider}
  /\ \A c \in Callers : calls[c].pc \in
       {"idle", "resolve", "list", "stat", "read", "create", "write", "done"}


\* ==================================================================== claims
\* the mailbox directories, read off the directory entries
ListedUnder(parent) ==
  { ParentEntries(parent)[i].name :
      i \in { j \in 1..Len(ParentEntries(parent)) : ParentEntries(parent)[j].isDir } }
MailboxNames == ListedUnder(OrgParent) \cup ListedUnder(PeopleParent)
MailboxDir(email) ==
  IF email \in ListedUnder(OrgParent) THEN OrgParent \o <<email>>
  ELSE PeopleParent \o <<email>>

ProbeOrder == << "new", "cur", ".Next-Actions", ".Waiting-For", ".Projects",
                 ".Someday-Maybe", ".Reference" >>

\* positions in ProbeOrder of the folders of the mailbox that hold the file
Holders(email, filename) ==
  { i \in 1..Len(ProbeOrder) :
      Path(MailboxDir(email) \o << ProbeOrder[i] >>, filename) \in DOMAIN files }

Done(c, op) == calls[c].pc = "done" /\ calls[c].op = op
Returned(c) == calls[c].result[1].kind = "return"

\* C1: when the same filename exists in two or more of the seven folders,
\* readMessage returns the message of the copy in the earliest-listed one.
C1_EarliestFolderWins ==
  \A c \in Callers :
    ( /\ Done(c, "readMessage")
      /\ calls[c].mbox # << >>
      /\ Cardinality(Holders(calls[c].email, calls[c].filename[1])) >= 2 )
    => LET H == Holders(calls[c].email, calls[c].filename[1])
           first == CHOOSE i \in H : \A j \in H : i <= j
           copy == files[Path(MailboxDir(calls[c].email) \o << ProbeOrder[first] >>,
                              calls[c].filename[1])]
       IN /\ Returned(c)
          /\ calls[c].result[1].message # << >>
          /\ calls[c].result[1].message[1].subject = copy.subject

\* C2: for a resolvable mailbox and a filename that is in none of the seven
\* folders, readMessage returns null and does not throw; readMessage leaves
\* the storage as it is.
C2_MissState ==
  \A c \in Callers :
    ( /\ Done(c, "readMessage")
      /\ activeProvider # NoProvider
      /\ calls[c].email \in MailboxNames
      /\ Holders(calls[c].email, calls[c].filename[1]) = {} )
    => calls[c].result = << [kind |-> "return", message |-> << >>] >>

C2_ReadOnly ==
  \A c \in Callers :
    (calls[c].pc = "idle" /\ calls'[c].op = "readMessage") => files' = files

C2_MissReturnsNull == []C2_MissState /\ [][C2_ReadOnly]_vars

C2_Witness ==
  \E c \in Callers :
    /\ Done(c, "readMessage")
    /\ calls[c].email = Kevin
    /\ Holders(Kevin, calls[c].filename[1]) = {}
    /\ DOMAIN files # {}
    /\ calls[c].result = << [kind |-> "return", message |-> << >>] >>

\* C3: an address that equals no mailbox directory name, also one that
\* differs only in letter case, makes each of the five operations fail with
\* "Mailbox not found", and the call writes nothing.
C3_UnlistedState ==
  \A c \in Callers :
    (calls[c].pc = "done" /\ calls[c].email \notin MailboxNames)
    => /\ calls[c].op \in {"getInbox", "getFolder", "readMessage",
                           "moveToFolder", "sendMessage"}
       /\ calls[c].result = << [kind |-> "throw", error |-> "Mailbox not found"] >>
       /\ calls[c].wrote = {}

C3_UnlistedNoWrite ==
  (\E c \in Callers : calls'[c].pc # "idle" /\ calls'[c].email \notin MailboxNames
                      /\ calls'[c] # calls[c])
    => files' = files

C3_UnlistedAddressFails == []C3_UnlistedState /\ [][C3_UnlistedNoWrite]_vars

C3_Witness ==
  \E c \in Callers :
    /\ Done(c, "sendMessage")
    /\ calls[c].email = KevinUpper
    /\ activeProvider = "icloud"
    /\ calls[c].result = << [kind |-> "throw", error |-> "Mailbox not found"] >>

\* a getInbox or getFolder call that resolved its mailbox
Batch(c) == calls[c].op \in {"getInbox", "getFolder"} /\ calls[c].mbox # << >>

SizeLimit == 5242880

\* the item, if any, that the call collected for a listed name
ItemsFor(c, name) ==
  { i \in 1..Len(calls[c].items) :
      calls[c].items[i].path.name = name }

KeptNames(trace) ==
  LET kept == SelectSeq(trace, LAMBDA e : e.outcome # "failed")
  IN [ i \in 1..Len(kept) |-> kept[i].name ]

ResultNames(c) ==
  [ i \in 1..Len(calls[c].result[1].items) |-> calls[c].result[1].items[i].path.name ]

\* C5: when new/ can be listed, a stat, read or parse failure of one entry
\* of getInbox skips only that entry: every entry among the first `limit`
\* is looked at and the result holds one item, in listing order, for each
\* entry that did not fail.
C5_FailSoftPerItem ==
  \A c \in Callers :
    (Done(c, "getInbox") /\ calls[c].mbox # << >> /\ ~calls[c].listFailed)
    => /\ Returned(c)
       /\ Len(calls[c].trace) = Len(calls[c].listed)
       /\ ResultNames(c) = KeptNames(calls[c].trace)

\* the folder a batch call lists
TargetDir(c) ==
  IF calls[c].op = "getInbox" \/ calls[c].folder \in {"new", "cur"}
  THEN MailboxDir(calls[c].email) \o << "new" >>
  ELSE IF calls[c].folder = "Reference" \/ calls[c].folder = ".Reference"
       THEN MailboxDir(calls[c].email) \o << ".Reference" >>
       ELSE MailboxDir(calls[c].email) \o << calls[c].folder >>

Unlistable(c) ==
  /\ calls[c].pc = "done" /\ Batch(c)
  /\ TargetDir(c) \notin ExistingDirs

C7_VanishedFileOmitted ==
  \A c \in Callers :
    ( /\ calls[c].pc = "done" /\ Batch(c) /\ ~calls[c].listFailed
      /\ \E k \in 1..Len(calls[c].trace) : calls[c].trace[k].held = << >> )
    => /\ Returned(c)
       /\ Len(calls[c].trace) = Len(calls[c].listed)
       /\ \A k \in 1..Len(calls[c].trace) :
            LET e == calls[c].trace[k] IN
            (e.held # << >> /\ (e.held[1].ok \/ (calls[c].op = "getInbox" /\ e.held[1].size > SizeLimit)))
            => \E i \in 1..Len(calls[c].result[1].items) :
                 calls[c].result[1].items[i].path.name = e.name

\* a sendMessage call that returned to its caller
Sent(c) == Done(c, "sendMessage") /\ Returned(c)

\* the path a message to `email` with file name `filename` belongs at
Delivered(email, filename) == Path(MailboxDir(email) \o << "new" >>, filename)

\* C8: the step that completes a sendMessage writes one file, at
\* <path of `to`>/new/<generated filename>, and returns that filename and
\* path; every other path keeps its content, the mailboxes listed are the
\* same, and no other step of the call changes the storage.
C8_SendStep ==
  \A c \in Callers :
    /\ ( /\ calls[c].pc = "write" /\ calls'[c].pc = "done"
         /\ calls'[c].result[1].kind = "return" )
       => LET res == calls'[c].result[1] IN
          /\ res.success
          /\ res.filename = [ts |-> clock, pid |-> HostPid, flags |-> << >>, ext |-> ".eml"]
          /\ calls[c].email \in MailboxNames
          /\ res.path = Delivered(calls[c].email, res.filename)
          /\ DOMAIN files' = DOMAIN files \cup {res.path}
          /\ files'[res.path] = calls[c].eml[1]
          /\ \A q \in DOMAIN files \ {res.path} : files'[q] = files[q]
          /\ calls'[c].wrote = {res.path}
          /\ listMailboxes(activeProvider') = listMailboxes(activeProvider)
    /\ ( /\ calls[c].op = "sendMessage" /\ calls'[c] # calls[c]
         /\ ~(calls'[c].pc = "done" /\ calls'[c].result[1].kind = "return") )
       => files' = files

C8_SendWritesOneFile == [][C8_SendStep]_vars

C8_Witness ==
  \E c \in Callers :
    /\ Sent(c)
    /\ calls[c].from \notin MailboxNames
    /\ calls[c].result[1].path = Delivered(Kevin, calls[c].result[1].filename)
    /\ Cardinality(DOMAIN files) = 2
    /\ files[calls[c].result[1].path] = calls[c].eml[1]

\* C9: the file written by a sendMessage decodes to GTD status 'new',
\* whether or not the caller supplied gtd metadata.
C9_SentStatusNew ==
  \A c \in Callers :
    Sent(c) =>
      /\ calls[c].result[1].path \in DOMAIN files
      /\ LET m == parseMessage(files[calls[c].result[1].path])
         IN m.ok /\ m.val.gtd.status = "new"

\* C10: two sendMessage calls to the same mailbox that returned different
\* filenames: both files are in new/ of the recipient; the write of one
\* message puts that message at its own path and leaves every file of
\* another name as it was.
C10_BothPresent ==
  \A c1, c2 \in Callers :
    ( /\ c1 # c2 /\ Sent(c1) /\ Sent(c2)
      /\ calls[c1].email = calls[c2].email
      /\ calls[c1].result[1].filename # calls[c2].result[1].filename )
    => \A c \in {c1, c2} :
         Delivered(calls[c].email, calls[c].result[1].filename) \in DOMAIN files

C10_NoneOverwritten ==
  \A c \in Callers :
    (calls[c].pc = "write" /\ calls'[c].pc = "done" /\ calls'[c].result[1].kind = "return")
    => LET p == Delivered(calls[c].email, calls'[c].result[1].filename)
       IN /\ p \in DOMAIN files' /\ files'[p] = calls[c].eml[1]
          /\ \A q \in DOMAIN files \ {p} : q \in DOMAIN files' /\ files'[q] = files[q]

C10_BothLand == []C10_BothPresent /\ [][C10_NoneOverwritten]_vars

C10_Witness ==
  \E c1, c2 \in Callers :
    /\ c1 # c2 /\ Sent(c1) /\ Sent(c2)
    /\ calls[c1].email = calls[c2].email
    /\ calls[c1].result[1].filename # calls[c2].result[1].filename
    /\ calls[c1].eml # calls[c2].eml
    /\ Cardinality(DOMAIN files) = 2

\* two finished generateMaildirFilename calls
Generated(c1, c2) ==
  /\ c1 # c2
  /\ Done(c1, "generateMaildirFilename") /\ Done(c2, "generateMaildirFilename")

\* C11: two generated filenames are equal if and only if they were
\* generated in the same second by the same process with the same flags,
\* and sends of the two to one mailbox target the same path only then.
C11_EqualIffSameCase ==
  \A c1, c2 \in Callers :
    Generated(c1, c2) =>
      LET a1 == calls[c1].args[1]
          a2 == calls[c2].args[1]
          n1 == calls[c1].result[1].filename
          n2 == calls[c2].result[1].filename
          same == a1.now = a2.now /\ a1.proc = a2.proc /\ a1.flags = a2.flags
      IN /\ (FilenameText(n1) = FilenameText(n2)) <=> same
         /\ \A m \in ProvisionedMailboxes :
              (SendFullPath(SendInboxPath(m), n1) = SendFullPath(SendInboxPath(m), n2))
                <=> same

\* the paths of the storage that carry a file name
PathsOf(name) == { p \in DOMAIN files : p.name = name }

\* C12: in every reachable state each message filename is in exactly one
\* folder of exactly one mailbox: no filename of the storage is at two
\* paths, and the filename of every sent message is in the storage.
C12_OneFolderOneMailbox ==
  /\ \A p \in DOMAIN files : Cardinality(PathsOf(p.name)) = 1
  /\ \A c \in Callers :
       Sent(c) => Cardinality(PathsOf(calls[c].result[1].filename)) = 1

\* the file of a moveToFolder call is in the given folder of its mailbox
MoveFileIn(c, fs, folder) ==
  Path(MailboxDir(calls[c].email) \o << folder >>, calls[c].filename[1]) \in DOMAIN fs

\* a moveToFolder call on a resolved mailbox has finished
Moved(c) == Done(c, "moveToFolder") /\ calls[c].mbox # << >>

\* C13: moveToFolder(mailbox, filename, 'Reference') on a file that is in
\* new/ or cur/ reports success, and afterwards the file is in .Reference/
\* of the mailbox and no longer in new/ or cur/.
C13_MovesToReference ==
  \A c \in Callers :
    ( /\ Moved(c) /\ calls[c].folder = "Reference"
      /\ calls[c].result[1].source \in {"new", "cur"} )
    => /\ calls[c].result[1].success
       /\ MoveFileIn(c, files, ".Reference")
       /\ ~MoveFileIn(c, files, "new") /\ ~MoveFileIn(c, files, "cur")

\* C14: moveToFolder relocates nothing: the storage is the same after the
\* call, every result it returns has success = false, and for a file found
\* in new/ or cur/ the message is the 'not yet implemented' one.
C14_MoveStep ==
  \A c \in Callers :
    (calls[c].pc = "idle" /\ calls'[c].op = "moveToFolder")
    => /\ files' = files
       /\ calls'[c].wrote = {}
       /\ calls'[c].mbox # << >> =>
            /\ calls'[c].result[1].kind = "return"
            /\ ~calls'[c].result[1].success
            /\ (MoveFileIn(c, files, "new")' \/ MoveFileIn(c, files, "cur")')
                 => calls'[c].result[1].message = "not yet implemented"

C15_SourceSearch ==
  \A c \in Callers :
    Moved(c) =>
      /\ Returned(c) /\ ~calls[c].result[1].success
      /\ (~MoveFileIn(c, files, "new") /\ ~MoveFileIn(c, files, "cur"))
           => calls[c].result[1].message = "not found in new/ or cur/"
      /\ MoveFileIn(c, files, "new") => calls[c].result[1].source = "new"
      /\ (~MoveFileIn(c, files, "new") /\ MoveFileIn(c, files, "cur"))
           => calls[c].result[1].source = "cur"

C15_Witness ==
  \E c \in Callers :
    /\ Moved(c)
    /\ MoveFileIn(c, files, ".Reference")
    /\ ~MoveFileIn(c, files, "new") /\ ~MoveFileIn(c, files, "cur")
    /\ calls[c].result[1].message = "not found in new/ or cur/"

\* a listing of the parent fails: no provider, or no such directory
ListFails(parent) == activeProvider = NoProvider \/ parent \in missing

OrgBoxes ==
  << [email |-> Team, path |-> <<"Mailboxes", "Organization", Team>>,
      type |-> "organization", category |-> Undef] >>
PeopleBoxes ==
  << [email |-> Kevin, path |-> <<"Mailboxes", "People", Kevin>>,
      type |-> "person", category |-> "human"],
     [email |-> Agent, path |-> <<"Mailboxes", "People", Agent>>,
      type |-> "person", category |-> "ai-agent"] >>

\* C16: listMailboxes never throws; a parent whose listing fails adds
\* nothing, the other parent's mailboxes are all there: Organization
\* failing leaves exactly the People mailboxes, People failing exactly the
\* Organization mailboxes, both failing the empty sequence.
C16_MissingParentTolerated ==
  \A c \in Callers :
    Done(c, "listMailboxes") =>
      /\ Returned(c)
      /\ calls[c].result[1].mailboxes =
           (IF ListFails(OrgParent) THEN << >> ELSE OrgBoxes)
             \o (IF ListFails(PeopleParent) THEN << >> ELSE PeopleBoxes)

C16_Witness ==
  \E c \in Callers :
    /\ Done(c, "listMailboxes")
    /\ activeProvider # NoProvider
    /\ missing = {OrgParent}
    /\ calls[c].result[1].mailboxes = PeopleBoxes

\* addresses with a '+' in them
PlusAddrs == { "kevin+claude@swoft.ai" }

\* C17: resolving an address lists the Organization parent and then the
\* People parent, and nothing else; the mailboxes are the entries that end
\* in the separator, under the entry's name; a People mailbox is 'ai-agent'
\* when its address has a '+' and 'human' otherwise, an Organization
\* mailbox has type 'organization'.
C17_TwoListings ==
  \A c \in Callers :
    /\ (calls[c].op \in {"getInbox", "listMailboxes"} /\ calls[c].pc \notin {"idle", "resolve"})
         => [ i \in 1..Len(calls[c].listings) |-> calls[c].listings[i].subfolder ]
              = << <<"Mailboxes", "Organization">>, <<"Mailboxes", "People">> >>
    /\ Done(c, "listMailboxes") =>
         LET mbs == calls[c].result[1].mailboxes IN
         /\ \A i \in 1..Len(mbs) :
              LET parent == SubSeq(mbs[i].path, 1, 2) IN
              /\ mbs[i].path = parent \o << mbs[i].email >>
              /\ mbs[i].email \in ListedUnder(parent)
              /\ parent = OrgParent =>
                   mbs[i].type = "organization"
              /\ parent = PeopleParent =>
                   /\ mbs[i].type = "person"
                   /\ mbs[i].category =
                        IF mbs[i].email \in PlusAddrs THEN "ai-agent" ELSE "human"
         /\ \A parent \in {OrgParent, PeopleParent} :
              ~ListFails(parent) =>
                \A e \in ListedUnder(parent) :
                  \E i \in 1..Len(mbs) : mbs[i].path = parent \o << e >>

C17_Witness ==
  \E c \in Callers :
    /\ Done(c, "listMailboxes")
    /\ Len(calls[c].listings) = 2
    /\ calls[c].listings[1].ok /\ calls[c].listings[2].ok
    /\ Len(calls[c].result[1].mailboxes) = 3
    /\ \E i \in 1..3 : /\ calls[c].result[1].mailboxes[i].email = Agent
                       /\ calls[c].result[1].mailboxes[i].category = "ai-agent"

\* the directory name the folder-path law gives a folder name
LawSegment(f) ==
  CASE f = "new" -> "new"
    [] f = "cur" -> "cur"
    [] f = "Next-Actions" -> ".Next-Actions"
    [] f = "Waiting-For" -> ".Waiting-For"
    [] f = "Projects" -> ".Projects"
    [] f = "Someday-Maybe" -> ".Someday-Maybe"
    [] f = "Reference" -> ".Reference"

\* C18: for every mailbox and each of the seven folder names, the folder
\* path is <mailboxPath>/new for 'new', <mailboxPath>/cur for 'cur' and
\* <mailboxPath>/.<name> otherwise, and getFolder and moveToFolder compute
\* the same path.
C18_FolderPathLaw ==
  \A c \in Callers :
    ( /\ Done(c, "folderPath")
      /\ calls[c].args[1].folder \in
           {"new", "cur", "Next-Actions", "Waiting-For", "Projects",
            "Someday-Maybe", "Reference"} )
    => /\ calls[c].result[1].getFolder =
            calls[c].args[1].mailboxPath \o << LawSegment(calls[c].args[1].folder) >>
       /\ calls[c].result[1].moveToFolder = calls[c].result[1].getFolder

C18_Witness ==
  \E c \in Callers :
    /\ Done(c, "folderPath")
    /\ calls[c].args[1].folder = "Reference"
    /\ calls[c].result[1].getFolder = <<"Mailboxes", "People", Kevin, ".Reference">>
    /\ calls[c].result[1].moveToFolder = <<"Mailboxes", "People", Kevin, ".Reference">>

\* the five booleans of a set of flag letters
FlagsOf(F) ==
  [ seen |-> "S" \in F, replied |-> "R" \in F, flagged |-> "F" \in F,
    draft |-> "D" \in F, trashed |-> "T" \in F ]

\* a finished parseMaildirFlags call on a name with a '_2,' or ':2,'
Parsed(c) == Done(c, "parseMaildirFlags")
HasSeparator(c) ==
  calls[c].args[1].sep \in { << "_", "2", "," >>, << ":", "2", "," >> }

\* C19: for the letters of any subset F of S, R, F, D, T in any order,
\* parsing the generated filename gives exactly the booleans of F, with
\* the '_2,' separator and with ':2,' in its place.
C19_FlagLaw ==
  \A c \in Callers :
    ( /\ Parsed(c) /\ HasSeparator(c)
      /\ Range(calls[c].args[1].flags) \subseteq {"S", "R", "F", "D", "T"} )
    => /\ Returned(c)
       /\ calls[c].result[1].flags = FlagsOf(Range(calls[c].args[1].flags))

C19_Witness ==
  \E c \in Callers :
    /\ Parsed(c)
    /\ calls[c].args[1].sep = << ":", "2", "," >>
    /\ calls[c].args[1].flags = << "T", "S" >>
    /\ calls[c].result[1].flags = FlagsOf({"S", "T"})

\* C20: parseMaildirFlags never fails; a name without '_2,' or ':2,' gives
\* five times false; with other letters in the flag string, each of S, R,
\* F, D, T is true exactly when it is in the flag string.
C20_UnknownLettersIgnored ==
  \A c \in Callers :
    Parsed(c) =>
      /\ Returned(c)
      /\ calls[c].result[1].flags =
           IF HasSeparator(c)
           THEN FlagsOf(Range(calls[c].args[1].flags) \cap {"S", "R", "F", "D", "T"})
           ELSE FlagsOf({})

\* ----------------------------------------------------------------- C21
Present(v) == v # Undef
RoundTrips == { c \in Callers : Done(c, "gtdRoundTrip") /\ calls[c].args[1].gtd # << >> }

\* C21: the GTD metadata round-trips through the headers: every present
\* field of the record comes back with the same value, an absent field makes
\* no header and comes back absent, a tag list comes back as the same
\* ordered sequence, and an absent or empty tag list comes back absent.
C21_GtdRoundTrip ==
  \A c \in RoundTrips :
    LET in == calls[c].args[1].gtd[1]
        headers == calls[c].result[1].headers
        out == calls[c].result[1].gtd
    IN /\ \A f \in { "project", "context", "priority", "status" } :
            IF Present(in[f]) THEN out[f] = in[f]
            ELSE headers[f] = Undef /\ out[f] = Undef
       /\ IF in.tags = << >> \/ in.tags[1] = << >>
          THEN headers.tags = << >> /\ out.tags = << >>
          ELSE out.tags = in.tags

\* ----------------------------------------------------------------- C22
Decodes == { c \in Callers : Done(c, "parseMessage") }
Sentinel == [ email |-> UnknownAddress, name |-> Undef ]

\* C22: decoding a structurally valid message never throws; without From
\* the sender is unknown@swoft.ai, without To the recipient is the sentinel
\* unknown@swoft.ai, without Message-ID an id <timestamp.token@swoft.ai>
\* is made up, and an address header with an empty address list raises no
\* error.
C22_DecodeNeverThrows ==
  \A c \in Decodes :
    LET parsed == calls[c].args[1].parsed
        r == calls[c].result[1]
    IN /\ r.kind = "return"
       /\ parsed.from = << >> => r.message.from = Sentinel
       /\ parsed.to = << >> => r.message.to = << Sentinel >>
       /\ parsed.messageId = << >> =>
            /\ r.message.messageId.domain = "swoft.ai"
            /\ r.message.messageId.timestamp \in 1..MaxClock
            /\ r.message.messageId.token \in RandomTokens

\* ----------------------------------------------------------------- C23
Clarified == { c \in Callers : Done(c, "createClarificationDecision") }

\* the words occur in the text, one after the other
ContainsWords(text, words) ==
  \E i \in 1..(Len(text) - Len(words) + 1) :
    SubSeq(text, i, i + Len(words) - 1) = words

\* words of the recommendation of each outcome
KeyWords(outcome) ==
  CASE outcome = "next_action" -> << "Next", "Actions" >>
    [] outcome = "project" -> << "project", "plan" >>
    [] outcome = "waiting_for" -> << "trigger/due", "date" >>
    [] outcome = "reference" -> << "Reference" >>
    [] outcome = "someday_maybe" -> << "Someday/Maybe" >>
    [] outcome = "trash" -> << "Delete" >>

\* C23: createClarificationDecision is a total lookup: whatever the
\* combination of is_actionable and outcome it returns; for each of the six
\* outcomes the recommendation is the one of that outcome (next_action:
\* a text containing 'Next Actions'); what_is_it, is_actionable and outcome
\* are echoed, and the event has type 'InboxItemClarified' and carries the
\* clarification that was passed.
C23_ClarifyIsLookup ==
  \A c \in Clarified :
    LET in == calls[c].args[1].clarification
        r == calls[c].result[1]
    IN /\ r.kind = "return"
       /\ r.decision.what_is_it = in.what_is_it
       /\ r.decision.is_actionable = in.is_actionable
       /\ r.decision.outcome = in.outcome
       /\ r.decision.event.type = "InboxItemClarified"
       /\ r.decision.event.clarification = in
       /\ in.outcome \in GTDOutcomes =>
            /\ ContainsWords(r.decision.recommended_action, KeyWords(in.outcome))
            /\ \A o \in GTDOutcomes \ { in.outcome } :
                 ~ContainsWords(r.decision.recommended_action, KeyWords(o))

\* a clarification that is not actionable and yet has outcome next_action
\* got the Next Actions recommendation
C23_Witness ==
  \E c \in Clarified :
    /\ calls[c].args[1].clarification.outcome = "next_action"
    /\ ~calls[c].args[1].clarification.is_actionable
    /\ calls[c].result[1].kind = "return"
    /\ ContainsWords(calls[c].result[1].decision.recommended_action,
                     << "Next", "Actions" >>)

\* ----------------------------------------------------------------- C25
Collected == { c \in Callers : Done(c, "enrichInboxItems") }
GTDStatuses == { "unclarified", "blocked", "delegated", "unknown" }

\* the entries collect keeps
Collectable(e) ==
  /\ e.type = "file" /\ e.name[Len(e.name)] = ".md"
  /\ e.name[1] \notin { "REPLY-", "PROCESSING-" }

StatusOfName(name) ==
  CASE name[1] = "INBOX-" -> "unclarified"
    [] name[1] = "ISSUE-" -> "blocked"
    [] name[1] = "REPLY-" -> "delegated"
    [] OTHER -> "unknown"

C25_ExactlyTheWorkItems ==
  \A c \in Collected :
    LET kept == SelectSeq(calls[c].args[1].files, Collectable)
        items == calls[c].result[1].items
    IN /\ Len(items) = Len(kept)
       /\ \A i \in 1..Len(kept) :
            /\ items[i].id = kept[i].name
            /\ items[i].requires_clarification
            /\ items[i].status = StatusOfName(kept[i].name)

C25_EveryStatusProduced ==
  \A s \in GTDStatuses :
    \E l \in Listings : \E i \in 1..Len(enrichInboxItems(l)) :
      enrichInboxItems(l)[i].status = s

\* C25: enrichInboxItems returns, in input order, exactly the regular files
\* with the work-item extension whose name starts with neither REPLY- nor
\* PROCESSING-, each with requires_clarification and the status of its
\* name prefix (INBOX- unclarified, ISSUE- blocked, REPLY- delegated,
\* otherwise unknown); each of the four statuses is produced for some
\* listing.
C25_CollectLaw == C25_ExactlyTheWorkItems /\ C25_EveryStatusProduced

\* ----------------------------------------------------------------- C24
C24_ClarifyStep ==
  \E c \in Callers :
    /\ calls[c].pc = "idle" /\ calls'[c].pc = "done"
    /\ calls'[c].op = "gtd_clarify_item"

\* C24: clarifying an item changes no file: a gtd_clarify_item request,
\* whatever its outcome (trash and reference included), leaves every file
\* in its folder with its content.
C24_ClarifyChangesNoFile == [][C24_ClarifyStep => files' = files]_vars

\* an item of new/ was clarified with outcome trash, the decision came
\* back, and the item is still in new/
C24_Witness ==
  \E c \in Callers :
    /\ Done(c, "gtd_clarify_item")
    /\ ~calls[c].result[1].payload.isError
    /\ calls[c].result[1].payload.text.clarification.outcome = "trash"
    /\ Path(MailboxDir(Kevin) \o << "new" >>, ExtName1) \in DOMAIN files

\* ----------------------------------------------------------------- C26
KnownTools == { "read_doc", "gtd_list_inboxes", "gtd_clarify_item",
               "gtd_organize_to_reference" }
ToolCalls == { c \in Callers : calls[c].pc = "done" /\ calls[c].result[1].kind = "response" }

\* the response of an organize request reports a move that was done
MoveSucceeded(c) ==
  /\ ~calls[c].result[1].payload.isError
  /\ calls[c].result[1].payload.text.success

\* the parameters the tool list declares as required
RequiredParams(name) ==
  CASE name = "read_doc" -> { "filename" }
    [] name = "gtd_clarify_item" -> { "inbox_owner", "item_filename", "clarification" }
    [] name = "gtd_organize_to_reference" -> { "inbox_owner", "item_filename" }
    [] OTHER -> {}

\* the request of the call is one of the failures: unknown tool, missing
\* required parameter, unresolvable mailbox, message not found by
\* clarify-item, move to Reference not done
ToolFailure(c) ==
  LET name == calls[c].op
      params == calls[c].args[1]
      owned == name \in { "gtd_clarify_item", "gtd_organize_to_reference" }
  IN \/ name \notin KnownTools
     \/ \E p \in RequiredParams(name) : params[p] = << >>
     \/ owned /\ params.inbox_owner[1] \notin MailboxNames
     \/ name = "gtd_clarify_item" /\ Holders(params.inbox_owner[1], params.item_filename[1]) = {}
     \/ name = "gtd_organize_to_reference" /\ ~MoveSucceeded(c)

\* C26: every failure of a tool request is answered with an error payload
\* (isError = true, text 'Error: ...'): unknown tool, missing required
\* parameter, unresolvable mailbox, message not found by clarify-item, and
\* a move to Reference that did not succeed.
C26_FailuresAreErrorPayloads ==
  \A c \in ToolCalls :
    ToolFailure(c) =>
      /\ calls[c].result[1].payload.isError
      /\ calls[c].result[1].payload.text.prefix = "Error: "

\* ----------------------------------------------------------------- C27
\* the .eml files of a folder in the order of the listing
EmlListing(fs, dir) ==
  LET names == SortNames({ p.name : p \in { q \in DOMAIN fs : q.dir = dir /\ q.name.ext = ".eml" } })
  IN [ i \in 1..Len(names) |-> Path(dir, names[i]) ]

FirstOf(seq, n) == SubSeq(seq, 1, IF n < Len(seq) THEN n ELSE Len(seq))

\* the step of getInbox or getFolder that lists the folder
C27_ListStep(c) ==
  /\ calls[c].pc = "list" /\ Batch(c)
  /\ calls'[c].pc # "list" /\ ~calls'[c].listFailed

\* the entries chosen at the listing are the first `limit` .eml entries
C27_FirstLimitChosen ==
  \A c \in Callers :
    C27_ListStep(c) =>
      calls'[c].listed = FirstOf(EmlListing(files, TargetDir(c)), calls[c].limit)

\* only chosen entries are examined, in order, and no more items are
\* returned than the limit
C27_OnlyChosenExamined ==
  \A c \in Callers :
    Batch(c) =>
      /\ calls[c].limit \in { 1, 10, 50 }
      /\ Len(calls[c].listed) <= calls[c].limit
      /\ Len(calls[c].trace) <= Len(calls[c].listed)
      /\ \A k \in 1..Len(calls[c].trace) :
           calls[c].trace[k].name = calls[c].listed[k].name
      /\ Len(calls[c].items) <= calls[c].limit
      /\ (calls[c].pc = "done" /\ Returned(c)) =>
           Len(calls[c].result[1].items) <= calls[c].limit

\* C27: getInbox and getFolder return at most `limit` items (10 and 50 by
\* default); only the first `limit` .eml entries of the listing, in listing
\* order, are examined, and an entry beyond the limit is never stat-ed,
\* read or decoded, also when entries within the limit are skipped.
C27_AtMostLimit == [][C27_FirstLimitChosen]_vars /\ []C27_OnlyChosenExamined

\* getFolder with limit 1 on a folder with two .eml files finished: the
\* first entry was examined and skipped, the second was not looked at
C27_Witness ==
  \E c \in Callers :
    /\ Done(c, "getFolder") /\ Batch(c) /\ calls[c].limit = 1
    /\ Len(EmlListing(files, TargetDir(c))) = 2
    /\ Len(calls[c].trace) = 1
    /\ calls[c].trace[1].outcome = "failed"
    /\ calls[c].trace[1].name = EmlListing(files, TargetDir(c))[1].name
    /\ calls[c].result[1].items = << >>

\* ----------------------------------------------------------------- C28
\* a finished getInbox or getFolder call on new/ of a mailbox whose listing
\* succeeded and whose listed entries all held a parseable file of
\* ordinary size when they were examined
OnNewOfGoodFiles(c) ==
  /\ calls[c].pc = "done" /\ Batch(c) /\ ~calls[c].listFailed
  /\ calls[c].op = "getFolder" => calls[c].folder = "new"
  /\ \A k \in 1..Len(calls[c].trace) :
       /\ calls[c].trace[k].held # << >>
       /\ calls[c].trace[k].held[1].ok
       /\ calls[c].trace[k].held[1].size <= SizeLimit

\* the call reports every listed entry, each read and decoded
ReportsAllListed(c) ==
  /\ Returned(c)
  /\ Len(calls[c].trace) = Len(calls[c].listed)
  /\ \A k \in 1..Len(calls[c].trace) :
       calls[c].trace[k].read /\ calls[c].trace[k].decoded
  /\ ResultNames(c) = [ k \in 1..Len(calls[c].listed) |-> calls[c].listed[k].name ]

\* C28: with the listing convention of the shipped provider (entries are
\* the subfolder joined with the name), getFolder(mailbox, 'new', n) and
\* getInbox(mailbox, n) report the same messages when no file is
\* oversized: every parseable .eml file of new/ within the limit is in
\* the result of either, under a path that storage.read accepted.
C28_SameMessages ==
  \A c \in Callers : OnNewOfGoodFiles(c) => ReportsAllListed(c)

\* ----------------------------------------------------------------- C29
\* a sendMessage to an existing mailbox has finished on the shipped stack
SentOnShippedStack(c) ==
  /\ Done(c, "sendMessage") /\ calls[c].mbox # << >>
  /\ activeProvider = "onedrive"

\* C29: on the shipped stack (CloudStorageManager over a
\* BaseCloudStorageProvider), a sendMessage to an existing mailbox m
\* completes with success and a filename f, after which readMessage(m, f)
\* gives the message with the sent subject and the listing of new/ that
\* getInbox(m) reads holds f.
C29_SendThenRead ==
  \A c \in Callers :
    SentOnShippedStack(c) =>
      /\ Returned(c)
      /\ calls[c].result[1].success
      /\ LET f == calls[c].result[1].filename
             r == readMessage(activeProvider, files, calls[c].email, f)
         IN /\ r[1].kind = "return"
            /\ r[1].message # << >>
            /\ r[1].message[1].subject = calls[c].subject
            /\ \E k \in 1..Len(EmlListing(files, MailboxDir(calls[c].email) \o << "new" >>)) :
                 EmlListing(files, MailboxDir(calls[c].email) \o << "new" >>)[k].name = f

\* ----------------------------------------------------------------- C30
\* the first provider of the configuration that is available
FirstInOrder(av) ==
  IF av["onedrive"] THEN "onedrive" ELSE IF av["icloud"] THEN "icloud" ELSE NoProvider

ManagerStep(c, op) ==
  calls[c].pc = "idle" /\ calls'[c].pc = "done" /\ calls'[c].op = op

Failed(call, code) == call.result[1].kind = "throw" /\ call.result[1].error = code

\* the active provider is unset or a configured provider
C30_ActiveIsConfigured == activeProvider \in Range(providers) \cup { NoProvider }

\* a provider becomes active only while it reports available
C30_SelectedWhileAvailable ==
  activeProvider' # activeProvider =>
    activeProvider' \in Range(providers) /\ available[activeProvider']

\* the calls on the manager fail with NOT_INITIALIZED exactly while no
\* provider is active
C30_NotInitializedIffUnset ==
  \A c \in Callers :
    (calls[c].pc = "done" /\ calls[c].op \in ManagerOps) =>
      (Failed(calls[c], "NOT_INITIALIZED") <=> activeProvider = NoProvider)

\* a switchProvider that fails does so with one of the two codes and
\* leaves the active provider in place
C30_FailedSwitchKeeps ==
  \A c \in Callers :
    (ManagerStep(c, "switchProvider") /\ calls'[c].result[1].kind = "throw") =>
      /\ \/ Failed(calls'[c], "PROVIDER_NOT_FOUND")
         \/ Failed(calls'[c], "PROVIDER_NOT_AVAILABLE")
      /\ activeProvider' = activeProvider

\* initialize selects the first available provider in configuration order,
\* or fails with NO_PROVIDER_AVAILABLE and changes nothing
C30_InitializeFirstAvailable ==
  \A c \in Callers :
    ManagerStep(c, "initialize") =>
      IF FirstInOrder(available) # NoProvider
      THEN calls'[c].result[1].kind = "return" /\ activeProvider' = FirstInOrder(available)
      ELSE Failed(calls'[c], "NO_PROVIDER_AVAILABLE") /\ activeProvider' = activeProvider

\* initialize selects the preferred provider when auto-detection is off
\* and that provider is configured and available, otherwise the first
\* available one, or fails with NO_PROVIDER_AVAILABLE and changes nothing
C30_InitializePreferredOrFirst ==
  \A c \in Callers :
    ManagerStep(c, "initialize") =>
      LET preferred == config.preferredProvider
          expected == IF /\ ~config.autoDetect /\ preferred \in { "onedrive", "icloud" }
                         /\ available[preferred]
                      THEN preferred ELSE FirstInOrder(available)
      IN IF expected # NoProvider
         THEN calls'[c].result[1].kind = "return" /\ activeProvider' = expected
         ELSE Failed(calls'[c], "NO_PROVIDER_AVAILABLE") /\ activeProvider' = activeProvider

\* C30 as stated: the active provider is unset or a configured provider
\* that reported available when it was selected; getProvider, list, read,
\* search, stat and write fail with NOT_INITIALIZED exactly while it is
\* unset; initialize selects the first available provider in configuration
\* order or fails with NO_PROVIDER_AVAILABLE leaving the state unchanged; a
\* failing switchProvider leaves the active provider in place.
C30_ProviderSelection ==
  /\ [](C30_ActiveIsConfigured /\ C30_NotInitializedIffUnset)
  /\ [][/\ C30_SelectedWhileAvailable /\ C30_FailedSwitchKeeps
         /\ C30_InitializeFirstAvailable]_vars

\* C30 amended: the same, with initialize selecting the configured
\* preferred provider when auto-detection is off and that provider is
\* available, and the first available provider in configuration order
\* otherwise.
C30_ProviderSelectionWithPreference ==
  /\ [](C30_ActiveIsConfigured /\ C30_NotInitializedIffUnset)
  /\ [][/\ C30_SelectedWhileAvailable /\ C30_FailedSwitchKeeps
         /\ C30_InitializePreferredOrFirst]_vars

\* with iCloud preferred and both providers available, initialize has made
\* iCloud the active provider, and a switch to OneDrive, unavailable by
\* then, has failed and left iCloud active
C30_Witness ==
  \E c \in Callers :
    /\ Done(c, "switchProvider") /\ Failed(calls[c], "PROVIDER_NOT_AVAILABLE")
    /\ calls[c].args = << "onedrive" >>
    /\ activeProvider = "icloud"
    /\ ~config.autoDetect /\ config.preferredProvider = "icloud"
    /\ ~available["onedrive"]

====
